---- MODULE Spec2Model ----
(***************************************************************************)
(* Model of the emulated mesh radio (package emulated): the Radio core,    *)
(* its MQTT bridge, the per-client stream sessions (handleConn), the       *)
(* beacon tasks and the TCP listener started by Run.                       *)
(*                                                                         *)
(* Goroutines are modelled as processes with a program counter each.  A    *)
(* critical section of r.mu that contains no blocking operation is one     *)
(* atomic action guarded by mu = Free; dispatchMessageToFromRadio, which   *)
(* sends on unbuffered channels while holding r.mu, holds mu across steps. *)
(* The stream is synchronous (net.Pipe): a Write blocks until the client   *)
(* reads it or closes its end.                                             *)
(***************************************************************************)
EXTENDS Integers, Sequences, FiniteSets, TLC

(* ------------------------------ bounds -------------------------------- *)
NumSessions == 2
NumBridge == 2
MaxReads == 1
MaxMsgs == 2
MaxPacketID == 3
MaxTicks == 1
MaxTime == 2
MaxPayload == 1
MaxNoise == 5
MaxRecv == 3

(* ------------------------- program constants -------------------------- *)
MinAppVersion == 30200
Self == 1
Peer == 2

Sessions == 1..NumSessions
Bridges == 1..NumBridge
Beacons == {"NodeInfo", "Position"}
Nodes == {Self, Peer}
NumNodes == Cardinality(Nodes)
ReqIds == {51, 52}
Primary == "LongFast"
Secondary == "Other"
Free == 0
\* meshtool.BroadcastNodeID: all 32 bits set, written as the signed value.
Broadcast == -1
PrimaryPSK == "primary"
\* The value a caller of getNodeDB writes into an entry it was given.
Scribble == 99

(* ------------------------------ messages ------------------------------ *)
NoInfo == [num |-> 0, user |-> 0, pos |-> 0, dm |-> 0, lh |-> 0]
NoPkt == [id |-> 0, from |-> 0, to |-> 0, variant |-> "none", key |-> "",
          port |-> "", body |-> "", req |-> 0]

\* FromRadio, by payload variant.
FromRadio(t, num, id, role, info, pkt) ==
    [t |-> t, num |-> num, id |-> id, role |-> role, info |-> info, pkt |-> pkt]

\* ToRadio, by payload variant; a Packet carries a MeshPacket.
ToRadio(t, id, pkt) == [t |-> t, id |-> id, pkt |-> pkt]

AdminPkt(id, body) ==
    [id |-> id, from |-> 0, to |-> Self, variant |-> "decoded", key |-> "",
     port |-> "ADMIN", body |-> body, req |-> 0]
TextPkt(id) ==
    [id |-> id, from |-> 0, to |-> Peer, variant |-> "decoded", key |-> "",
     port |-> "TEXT", body |-> "ok", req |-> 0]

\* The ToRadio messages a client may send.
ToRadioMsgs ==
    {ToRadio("Disconnect", 0, NoPkt), ToRadio("Unknown", 0, NoPkt)}
      \cup {ToRadio("WantConfigId", i, NoPkt) : i \in ReqIds}
      \cup {ToRadio("Packet", 0, AdminPkt(77, b)) :
                b \in {"GetChannelRequest", "OtherAdmin", "bad"}}
      \cup {ToRadio("Packet", 0, TextPkt(78))}

\* A mesh packet as carried by a ServiceEnvelope.  An encrypted payload was
\* produced under key `key` with the nonce of (id, from).
MeshPkt(id, from, variant, key, port, body) ==
    [id |-> id, from |-> from, to |-> 0, variant |-> variant, key |-> key,
     port |-> port, body |-> body, req |-> 0]

\* An MQTT message: ok = the payload unmarshals as a ServiceEnvelope.
Envelope(ok, chan, pkt) == [ok |-> ok, chan |-> chan, pkt |-> pkt]

\* The MQTT messages delivered to the radio; the packet id is the delivery's
\* sequence number q.
MqttMsgs(q) ==
    {Envelope(FALSE, "", NoPkt)}
      \cup {Envelope(TRUE, c, MeshPkt(q, n, v[1], v[2], p, "ok")) :
               c \in {Primary, Secondary}, n \in Nodes,
               v \in {<<"decoded", "">>, <<"encrypted", "primary">>,
                      <<"encrypted", "wrong">>},
               p \in {"NODEINFO", "POSITION", "TELEMETRY", "TEXT", "ROUTING",
                      "OTHER"}}
      \cup {Envelope(TRUE, Primary, MeshPkt(q, n, "decoded", "", p, b)) :
               n \in Nodes, p \in {"NODEINFO", "POSITION", "TELEMETRY", "ROUTING"},
               b \in {"garbage", "nometrics"}}
      \cup {Envelope(TRUE, Primary, MeshPkt(q, n, "none", "", "NODEINFO", "ok")) :
               n \in Nodes}

(* ----------------------------- construction -------------------------- *)
\* A display name: a literal text, or a text followed by the last four hex
\* digits of a node id (hex = -1: no digits).
Name(text, hex) == [text |-> text, hex |-> hex]
EmptyName == Name("", -1)

\* A node id whose last four hex digits are those of Self (0x10001).
WideID == 65537

\* NodeID.DefaultLongName / DefaultShortName: "Meshtastic " + the last four
\* hex digits of the id, and those digits alone.
DefaultLongName(id) == Name("Meshtastic ", id % 65536)
DefaultShortName(id) == Name("", id % 65536)

\* Config as NewRadio receives it.  MQTTClient: the pointer is non-nil.
\* Channels: [set |-> the pointer is non-nil, Settings |-> the channel names].
NilChannels == [set |-> FALSE, Settings |-> <<>>]
ChannelSet(names) == [set |-> TRUE, Settings |-> names]
Configs ==
    [MQTTClient : BOOLEAN,
     NodeID : {0, Self, WideID},
     LongName : {EmptyName, Name("EXAMPLE", -1)},
     ShortName : {EmptyName, Name("EMPL", -1)},
     Channels : {NilChannels, ChannelSet(<<>>), ChannelSet(<<Primary>>),
                 ChannelSet(<<Primary, Secondary>>)}]
NoConfig ==
    [MQTTClient |-> FALSE, NodeID |-> 0, LongName |-> EmptyName,
     ShortName |-> EmptyName, Channels |-> NilChannels]

\* Config.validate, with the Config it leaves behind (pointer receiver).
WithNames(c) ==
    [c EXCEPT !.LongName = IF c.LongName = EmptyName
                           THEN DefaultLongName(c.NodeID) ELSE c.LongName,
              !.ShortName = IF c.ShortName = EmptyName
                            THEN DefaultShortName(c.NodeID) ELSE c.ShortName]

validateAllowEmpty(c) ==
    IF ~c.MQTTClient THEN [err |-> "MQTTClient is required", c |-> c]
    ELSE IF c.NodeID = 0 THEN [err |-> "NodeID is required", c |-> c]
    ELSE IF ~c.Channels.set
         THEN [err |-> "Channels is required", c |-> WithNames(c)]
    ELSE [err |-> "", c |-> WithNames(c)]

validate(c) ==
    IF ~c.MQTTClient THEN [err |-> "MQTTClient is required", c |-> c]
    ELSE IF c.NodeID = 0 THEN [err |-> "NodeID is required", c |-> c]
    ELSE IF ~c.Channels.set
         THEN [err |-> "Channels is required", c |-> WithNames(c)]
    ELSE IF Len(c.Channels.Settings) = 0
         THEN [err |-> "Channels.Settings should be non-empty",
               c |-> WithNames(c)]
    ELSE [err |-> "", c |-> WithNames(c)]

\* NewRadio: (nil, error) when validate fails, else the Radio built from the
\* validated copy of cfg.
NilRadio == [ptr |-> FALSE, cfg |-> NoConfig, subs |-> {}, packetID |-> 0]
NewRadio(c) ==
    LET v == validate(c) IN
    IF v.err # "" THEN [err |-> v.err, radio |-> NilRadio]
    ELSE [err |-> "",
          radio |-> [ptr |-> TRUE, cfg |-> v.c, subs |-> {}, packetID |-> 0]]

\* NewRadio has not been called.
NotCalled == [err |-> "not called", radio |-> NilRadio]

(* ------------------------------ TryDecode ----------------------------- *)
\* Bytes are modelled two bits wide.
ByteRange == 4
Byte == 0..(ByteRange - 1)
ByteSeqs(n) == UNION {[1..k -> Byte] : k \in 0..n}

\* Bitwise exclusive or of two bytes.
XorByte(a, b) ==
    (((a % 2) + (b % 2)) % 2) + 2 * (((a \div 2) + (b \div 2)) % 2)

\* A key: its length in bytes and its content.
Key(len, k) == [len |-> len, k |-> k]
Keys == {Key(l, k) : l \in {0, 1, 16, 24, 32}, k \in {0, 1}}

\* The keystream byte at position i under the nonce of (id, from).
KeyStream(key, id, from, i) == (key.k + id + 2 * from + i) % ByteRange

\* XOR(data, key, id, from): the data XORed with the keystream of (key, nonce
\* of id and from); a key that is not 16, 24 or 32 bytes long is an error.
XOR(data, key, id, from) ==
    IF key.len \notin {16, 24, 32} THEN [err |-> "InvalidKey", bytes |-> <<>>]
    ELSE [err |-> "",
          bytes |-> [i \in 1..Len(data) |->
                        XorByte(data[i], KeyStream(key, id, from, i))]]

\* meshtastic.Data: a port number and a payload.  NoData is the zero value.
Data(portnum, payload) == [portnum |-> portnum, payload |-> payload]
NoData == Data(0, <<>>)
Datas == {NoData} \cup {Data(p, b) : p \in 1..(ByteRange - 1), b \in ByteSeqs(MaxPayload)}

\* proto.Marshal / proto.Unmarshal of a Data: zero fields are not written; a
\* message that starts with the tag byte 0 does not parse.
MarshalData(d) == IF d = NoData THEN <<>> ELSE <<d.portnum>> \o d.payload
UnmarshalData(b) ==
    IF b = <<>> THEN [err |-> "", data |-> NoData]
    ELSE IF b[1] = 0 THEN [err |-> "proto: cannot parse", data |-> NoData]
    ELSE [err |-> "", data |-> Data(b[1], Tail(b))]

\* meshtastic.MeshPacket with its payload variant ("decoded", "encrypted" or
\* "none") and the field of that variant.
Packet(id, from, variant, decoded, encrypted) ==
    [id |-> id, from |-> from, variant |-> variant, decoded |-> decoded,
     encrypted |-> encrypted]
NoPacket == Packet(0, 0, "none", NoData, <<>>)
Packets ==
    {Packet(i, f, "decoded", d, <<>>) : i \in 1..2, f \in 1..2, d \in Datas}
      \cup {Packet(i, f, "encrypted", NoData, c) :
               i \in 1..2, f \in 1..2, c \in ByteSeqs(MaxPayload + 1)}
      \cup {Packet(i, f, "none", NoData, <<>>) : i \in 1..2, f \in 1..2}

\* A faulty TryDecode that builds the nonce from (from, id).
TryDecodeDataSwapped(packet, key) ==
    CASE packet.variant = "decoded" -> [err |-> "", data |-> packet.decoded]
      [] packet.variant = "encrypted" ->
            LET decrypted == XOR(packet.encrypted, key, packet.from, packet.id)
                parsed == UnmarshalData(decrypted.bytes)
            IN IF decrypted.err # "" THEN [err |-> "ErrDecrypt", data |-> NoData]
               ELSE IF parsed.err # "" THEN [err |-> "ErrDecrypt", data |-> NoData]
               ELSE [err |-> "", data |-> parsed.data]
      [] OTHER -> [err |-> "ErrUnkownPayloadType", data |-> NoData]

\* radio.TryDecode(packet, key) with the Data it returns: (data, nil) or
\* (nil, error).
TryDecodeData(packet, key) ==
    CASE packet.variant = "decoded" -> [err |-> "", data |-> packet.decoded]
      [] packet.variant = "encrypted" ->
            LET decrypted == XOR(packet.encrypted, key, packet.id, packet.from)
                parsed == UnmarshalData(decrypted.bytes)
            IN IF decrypted.err # "" THEN [err |-> "ErrDecrypt", data |-> NoData]
               ELSE IF parsed.err # "" THEN [err |-> "ErrDecrypt", data |-> NoData]
               ELSE [err |-> "", data |-> parsed.data]
      [] OTHER -> [err |-> "ErrUnkownPayloadType", data |-> NoData]

NoResult == [err |-> "not called", data |-> NoData]

(* ----------------------------- frame codec --------------------------- *)
\* The stream header's magic bytes and the largest frame payload.
Start1 == 148
Start2 == 195
MaxFramePayload == 512

\* A faulty header with the length little-endian.
writeStreamHeaderLittleEndian(n) == <<Start1, Start2, n % 256, (n \div 256) % 256>>

\* writeStreamHeader(out, n): START1, START2 and the 16-bit length, big-endian.
writeStreamHeader(n) == <<Start1, Start2, (n \div 256) % 256, n % 256>>

\* A faulty encoder whose length counts the header too.
encodeCountingHeader(p) == writeStreamHeader(Len(p) + 4) \o p

\* encode: the header for the payload, then the payload, as one write.
encode(p) == writeStreamHeader(Len(p)) \o p

\* Step 1 of the decode algorithm: the position of the first START1 at or
\* after position i of b (the bytes before it are discarded), or Len(b) + 1.
ScanStart1(b, i) ==
    IF \E j \in i..Len(b) : b[j] = Start1
    THEN CHOOSE j \in i..Len(b) :
            b[j] = Start1 /\ \A k \in i..(j - 1) : b[k] # Start1
    ELSE Len(b) + 1

\* A faulty decoder, which after START1 drops a byte that is not START2.
RECURSIVE decodeSkipping(_, _)
decodeSkipping(b, i) ==
    LET s == ScanStart1(b, i) IN
    IF s + 1 > Len(b) THEN [err |-> "EOF", payload |-> <<>>, next |-> s]
    ELSE IF b[s + 1] # Start2 THEN decodeSkipping(b, s + 2)
    ELSE IF s + 3 > Len(b) THEN [err |-> "EOF", payload |-> <<>>, next |-> s]
    ELSE LET n == b[s + 2] * 256 + b[s + 3] IN
         IF n > MaxFramePayload THEN decodeSkipping(b, s + 4)
         ELSE IF s + 3 + n > Len(b)
              THEN [err |-> "EOF", payload |-> <<>>, next |-> s]
         ELSE [err |-> "", payload |-> SubSeq(b, s + 4, s + 3 + n),
               next |-> s + 4 + n]

\* decode: the decode algorithm on the bytes b of the stream from position i
\* on.  1. scan for START1; 2. the next byte must be START2, else the scan
\* restarts at that byte, which may itself be START1; 3. a length above the
\* maximum restarts the scan after the header; 4. read the payload.  Returns
\* the payload and the position after the frame, or EOF when the stream ends
\* first.
RECURSIVE decode(_, _)
decode(b, i) ==
    LET s == ScanStart1(b, i) IN
    IF s + 1 > Len(b) THEN [err |-> "EOF", payload |-> <<>>, next |-> s]
    ELSE IF b[s + 1] # Start2 THEN decode(b, s + 1)
    ELSE IF s + 3 > Len(b) THEN [err |-> "EOF", payload |-> <<>>, next |-> s]
    ELSE LET n == b[s + 2] * 256 + b[s + 3] IN
         IF n > MaxFramePayload THEN decode(b, s + 4)
         ELSE IF s + 3 + n > Len(b)
              THEN [err |-> "EOF", payload |-> <<>>, next |-> s]
         ELSE [err |-> "", payload |-> SubSeq(b, s + 4, s + 3 + n),
               next |-> s + 4 + n]

\* A ToRadio or FromRadio message as the codec sees it: its type, and the tag
\* and body its serialization consists of.  The zero message serializes to no
\* bytes; bytes that start with the tag 0 do not parse.
FrameMsg(type, tag, body) == [type |-> type, tag |-> tag, body |-> body]
MarshalMsg(m) == IF m.tag = 0 THEN <<>> ELSE <<m.tag>> \o m.body
UnmarshalMsg(type, b) ==
    IF b = <<>> THEN [err |-> "", msg |-> FrameMsg(type, 0, <<>>)]
    ELSE IF b[1] = 0
         THEN [err |-> "proto: cannot parse", msg |-> FrameMsg(type, 0, <<>>)]
    ELSE [err |-> "", msg |-> FrameMsg(type, b[1], Tail(b))]

\* The body sizes of the messages written, and the messages: bodies filled
\* with one byte (the payload is one byte longer than the body).
BodySizes == {0, 1, 256, MaxFramePayload - 1}
Fill(n, x) == [i \in 1..n |-> x]
FrameMsgs ==
    {FrameMsg(t, 0, <<>>) : t \in {"ToRadio", "FromRadio"}}
      \cup {FrameMsg(t, 3, Fill(n, x)) :
               t \in {"ToRadio", "FromRadio"}, n \in BodySizes,
               x \in {7, Start2}}

\* The bytes that precede a frame on the stream (debug output, line noise).
NoiseBytes == {Start1, Start2, 0, 2}
Noises == UNION {[1..k -> NoiseBytes] : k \in 0..MaxNoise}

\* StreamConn.Read(out): decode a frame and unmarshal its payload as out's
\* type; an unmarshal failure is reported as a decode error.
Read(type, b, i) ==
    LET f == decode(b, i) IN
    IF f.err # "" THEN [err |-> f.err, msg |-> FrameMsg(type, 0, <<>>), next |-> f.next]
    ELSE LET u == UnmarshalMsg(type, f.payload) IN
         [err |-> IF u.err = "" THEN "" ELSE "decode", msg |-> u.msg,
          next |-> f.next]

NoRead == [err |-> "not called", msg |-> FrameMsg("", 0, <<>>), next |-> 0]

(* ------------------------ transport.Client ---------------------------- *)
\* State of a Client after NewClient: nothing received, not complete.
NewState ==
    [complete |-> FALSE, configID |-> 0, nodeInfo |-> <<>>,
     deviceMetadata |-> <<>>, nodes |-> <<>>, channels |-> <<>>,
     configs |-> <<>>, modules |-> <<>>]

\* State.SetComplete.
SetComplete(st, complete) == [st EXCEPT !.complete = complete]

\* State.Complete.
Complete(st) == st.complete

\* The FromRadio payload variants the read loop of Connect tells apart;
\* "Unknown" is a variant none of its cases names.
ConfigKinds ==
    {"MyInfo", "Metadata", "NodeInfo", "Channel", "Config", "ModuleConfig"}
OtherKinds ==
    {"LogRecord", "MqttClientProxyMessage", "QueueStatus", "XmodemPacket",
     "Packet", "Unknown"}

\* A FromRadio message as the client reads it.
ClientMsg(t, id) == FromRadio(t, 0, id, "", NoInfo, NoPkt)

\* What the radio may send to a client: every variant, and a
\* ConfigCompleteId with each id.
ClientMsgs ==
    {ClientMsg(t, 0) : t \in ConfigKinds \cup OtherKinds \cup {"Rebooted"}}
      \cup {ClientMsg("ConfigCompleteId", i) : i \in ReqIds}

\* A failed Read, as an entry of the record of what the read loop received.
ReadError == ClientMsg("ReadError", 0)

\* Connect's read loop, the switch: what the case of message m stores in the
\* State (SetNodeInfo, SetDeviceMetadata, AddNode, AddChannel, AddConfig,
\* AddModule; the other cases store nothing).
Store(st, m) ==
    CASE m.t = "MyInfo" -> [st EXCEPT !.nodeInfo = <<m>>]
      [] m.t = "Metadata" -> [st EXCEPT !.deviceMetadata = <<m>>]
      [] m.t = "NodeInfo" -> [st EXCEPT !.nodes = Append(@, m)]
      [] m.t = "Channel" -> [st EXCEPT !.channels = Append(@, m)]
      [] m.t = "Config" -> [st EXCEPT !.configs = Append(@, m)]
      [] m.t = "ModuleConfig" -> [st EXCEPT !.modules = Append(@, m)]
      [] OTHER -> st

\* Connect's read loop, the switch: the cases that end in `continue`.
Continues(m) == m.t \in {"ConfigCompleteId", "Rebooted"}

\* Connect's read loop, the switch: the variant handed on; the default case
\* leaves it nil.
NilVariant == ClientMsg("nil", 0)
Variant(m) == IF m.t = "Unknown" THEN NilVariant ELSE m

\* A faulty ConfigCompleteId case that closes the channel every time.
ShouldCloseAlways(st) == TRUE

\* Connect's read loop, ConfigCompleteId: close(cfgComplete) only while the
\* State is not complete.
ShouldClose(st) == ~Complete(st)

\* A faulty read loop that calls the handlers before completion too.
HandlerGateOpen(st) == TRUE

\* Connect's read loop after the switch: HandleMessage is called only when
\* the State is complete.
HandlerGate(st) == Complete(st)

(* ------------------------------- state -------------------------------- *)
VARIABLES
    cfg,        \* Config: [tcp, ni, pos] (listen address set, intervals > 0)
    ctxDone,    \* the context passed to Run and Conn is cancelled
    runpc,      \* Radio.Run: "new", "running", "returned", "failed" (Connect)
    runErr,     \* Run's errgroup: a subtask returned an error
    bcpc,       \* beacon goroutine position, per beacon kind
    bcid,       \* sendPacket: the value returned by nextPacketID, per beacon
    ticks,      \* ticker ticks consumed, per beacon
    lpc,        \* listenTCP position: "off", "listen", "accept", "done"
    mu,         \* r.mu: Free or the bridge callback holding it
    packetID,   \* r.packetID
    subs,       \* r.fromRadioSubscribers (a channel is named by its session)
    nodeDB,     \* r.nodeDB
    spc,        \* handleConn: "none", "run", "closed"
    skind,      \* "tcp" (listenTCP) or "mem" (Conn)
    sCancel,    \* the session errgroup cancelled its context
    sErr,       \* the error handleConn returns ("" = nil)
    rpc,        \* reader goroutine position ("bye": returned on Disconnect)
    rreq,       \* WantConfigId being served
    rstep,      \* handshake step being written
    rsnap,      \* getNodeDB result still to be written
    rmsg,       \* FromRadio the reader is writing
    reads,      \* ToRadio frames read by the session
    wpc,        \* writer goroutine position
    wmsg,       \* FromRadio the writer received from its channel
    werr,       \* the writer is returning a write error
    wq,         \* tasks blocked in Write on the stream, in arrival order
    cliClosed,  \* the client closed its end of the stream
    out,        \* FromRadio messages the client has read, in order
    bpc,        \* MQTT callback position
    bmsg,       \* the message the callback handles
    bseq,       \* its delivery sequence number
    cur,        \* dispatch: the subscriber being sent to
    todo,       \* dispatch: subscribers not yet sent to
    msgCount,   \* MQTT messages delivered
    issued,     \* history: values returned by nextPacketID, in order
    published,  \* history: envelopes passed to mqtt.Publish, with the outcome
    fan,        \* history: delivery q -> the subscribers registered at its dispatch
    asked,      \* history: the WantConfigId values each session read, in order
    snaps,      \* history: the getNodeDB results of each session's handshakes
    got,        \* history: the ToRadio messages each session read, in order
    applied,    \* history: the updateNodeDB calls, in the order they ran
    now,        \* time.Now().Unix()
    held,       \* a getNodeDB result held by a caller of the NodeDB
    heldExp,    \* history: the values of held as its caller left them
    heldKeys,   \* history: the nodes stored when held was taken
    ncfg,       \* the Config a caller passes to NewRadio
    nres,       \* what NewRadio returned: [err, radio]
    tpkt,       \* the MeshPacket a caller passes to radio.TryDecode
    tkey,       \* the key it passes
    tres,       \* what TryDecode returned: [err, data]
    fmsg,       \* the message a StreamConn is to write
    fnoise,     \* the bytes on the stream before it is written
    wire,       \* the bytes written to the stream so far
    fres,       \* what Read returned on the other end: [err, msg, next]
    maxReads,   \* the number of frames a client sends on its stream
    State,      \* Client.State
    connpc,     \* Client.Connect: "idle", "select", "nil", "timeout", "senderr"
    clpc,       \* Connect's read loop: "off", "read", "close", "set"
    cfgComplete, \* Connect's channel: "none", "open", "closed"
    closes,     \* the number of close(cfgComplete) calls made
    cctx,       \* the context passed to Connect has ended
    recv,       \* what the read loop got from Read, with State.complete then
    handled     \* the variants passed to handlers.HandleMessage

radioVars == <<cfg, ctxDone, runpc, runErr, bcpc, bcid, ticks, lpc, mu,
               packetID, subs, nodeDB>>
sessVars == <<spc, skind, sCancel, sErr, rpc, rreq, rstep, rsnap, rmsg, reads,
              wpc, wmsg, werr, wq, cliClosed, out>>
bridgeVars == <<bpc, bmsg, bseq, cur, todo, msgCount>>
histVars == <<issued, published, fan, asked, snaps, got, applied>>
dbVars == <<now, held, heldExp, heldKeys>>
nrVars == <<ncfg, nres>>
tdVars == <<tpkt, tkey, tres>>
scVars == <<fmsg, fnoise, wire, fres>>
envVars == <<maxReads>>
clVars == <<State, connpc, clpc, cfgComplete, closes, cctx, recv, handled>>
fnVars == <<nrVars, tdVars, scVars, envVars, clVars>>
vars == <<radioVars, sessVars, bridgeVars, histVars, dbVars, fnVars>>

(* ------------------------------ helpers ------------------------------- *)
Upd(f, k, v) == [f EXCEPT ![k] = v]

\* All orderings of a finite set (Go map iteration order is unspecified).
Perms(S) ==
    {sq \in [1..Cardinality(S) -> S] :
        \A i, j \in 1..Cardinality(S) : i # j => sq[i] # sq[j]}

\* Number of elements of sequence sq satisfying Test.
Count(sq, Test(_)) == Cardinality({i \in 1..Len(sq) : Test(sq[i])})

\* Run's errgroup context: done when ctx is, when a subtask returned an error,
\* or once Wait has returned.
RunCtxDone == ctxDone \/ runErr \/ runpc = "returned"

\* handleConn's errgroup context, derived from the context handleConn got:
\* Run's group context for a TCP session, the caller's for Conn.
SessDone(s) ==
    sCancel[s] \/ (IF skind[s] = "tcp" THEN RunCtxDone ELSE ctxDone)

RDone(s) == rpc[s] \in {"done", "bye"}

(* ------------------------------- Init --------------------------------- *)
InitRadio ==
    /\ cfg \in [tcp : BOOLEAN, ni : BOOLEAN, pos : BOOLEAN]
    /\ ctxDone = FALSE
    /\ runpc = "new"
    /\ runErr = FALSE
    /\ bcpc = [k \in Beacons |-> "off"]
    /\ bcid = [k \in Beacons |-> 0]
    /\ ticks = [k \in Beacons |-> 0]
    /\ lpc = "off"
    /\ mu = Free
    /\ packetID = 0
    /\ subs = {}
    /\ nodeDB = <<>>
    /\ spc = [s \in Sessions |-> "none"]
    /\ skind = [s \in Sessions |-> "mem"]
    /\ sCancel = [s \in Sessions |-> FALSE]
    /\ sErr = [s \in Sessions |-> ""]
    /\ rpc = [s \in Sessions |-> "none"]
    /\ rreq = [s \in Sessions |-> 0]
    /\ rstep = [s \in Sessions |-> 0]
    /\ rsnap = [s \in Sessions |-> <<>>]
    /\ rmsg = [s \in Sessions |-> FromRadio("", 0, 0, "", NoInfo, NoPkt)]
    /\ reads = [s \in Sessions |-> 0]
    /\ wpc = [s \in Sessions |-> "none"]
    /\ wmsg = [s \in Sessions |-> FromRadio("", 0, 0, "", NoInfo, NoPkt)]
    /\ werr = [s \in Sessions |-> FALSE]
    /\ wq = [s \in Sessions |-> <<>>]
    /\ cliClosed = [s \in Sessions |-> FALSE]
    /\ out = [s \in Sessions |-> <<>>]
    /\ bpc = [t \in Bridges |-> "idle"]
    /\ bmsg = [t \in Bridges |-> Envelope(FALSE, "", NoPkt)]
    /\ bseq = [t \in Bridges |-> 0]
    /\ cur = [t \in Bridges |-> 0]
    /\ todo = [t \in Bridges |-> {}]
    /\ msgCount = 0
    /\ issued = <<>>
    /\ published = <<>>
    /\ fan = <<>>
    /\ asked = [s \in Sessions |-> <<>>]
    /\ snaps = [s \in Sessions |-> <<>>]
    /\ got = [s \in Sessions |-> <<>>]
    /\ applied = <<>>
    /\ now = 0
    /\ held = <<>>
    /\ heldExp = <<>>
    /\ heldKeys = {}

\* No call of a library function is under way.
IdleNewRadio == ncfg = NoConfig /\ nres = NotCalled
IdleTryDecode == tpkt = NoPacket /\ tkey = Key(0, 0) /\ tres = NoResult
IdleStream ==
    /\ fmsg = FrameMsg("ToRadio", 0, <<>>) /\ fnoise = <<>> /\ wire = <<>>
    /\ fres = NoRead
ShortClients == maxReads = MaxReads
\* A Client after NewClient, Connect not called.
IdleClient ==
    /\ State = NewState /\ connpc = "idle" /\ clpc = "off"
    /\ cfgComplete = "none" /\ closes = 0 /\ cctx = FALSE
    /\ recv = <<>> /\ handled = <<>>
InitFn ==
    IdleNewRadio /\ IdleTryDecode /\ IdleStream /\ ShortClients /\ IdleClient

Init == InitRadio /\ InitFn

(* ----------------------------- radio core ----------------------------- *)
\* Radio.nextPacketID: r.packetID++ under r.mu; the value it returns.
nextPacketID(p) == p + 1

\* A faulty getNodeDB that returns the stored objects themselves.
CloneNodeShared(n, e) == [ref |-> n, val |-> e]

\* proto.Clone of the stored entry of node n, whose value is e.  An object is
\* [ref, val]: ref = 0 for an object of its own with value val, ref = n for
\* the very object the store holds for node n.
CloneNode(n, e) == [ref |-> 0, val |-> e]

\* The value read through object o while the store is db.
Deref(db, o) == IF o.ref = 0 THEN o.val ELSE db[o.ref]

\* Radio.getNodeDB: the clones of the stored entries, in map iteration order.
getNodeDB(db) == Perms({CloneNode(n, db[n]) : n \in DOMAIN db})

\* A faulty update that leaves LastHeard as it was.
updateNodeDBKeepHeard(db, n, field, v, t) ==
    LET old == IF n \in DOMAIN db THEN db[n]
               ELSE [num |-> n, user |-> 0, pos |-> 0, dm |-> 0, lh |-> 0]
        new == CASE field = "user" -> [old EXCEPT !.user = v]
                 [] field = "pos" -> [old EXCEPT !.pos = v]
                 [] field = "dm" -> [old EXCEPT !.dm = v]
    IN  [m \in DOMAIN db \cup {n} |-> IF m = n THEN new ELSE db[m]]

\* A faulty update that always starts from a new entry, as a callback would
\* that read the entry before another one stored its own.
updateNodeDBFromNew(db, n, field, v, t) ==
    LET old == [num |-> n, user |-> 0, pos |-> 0, dm |-> 0, lh |-> 0]
        upd == CASE field = "user" -> [old EXCEPT !.user = v]
                 [] field = "pos" -> [old EXCEPT !.pos = v]
                 [] field = "dm" -> [old EXCEPT !.dm = v]
        new == [upd EXCEPT !.lh = t]
    IN  [m \in DOMAIN db \cup {n} |-> IF m = n THEN new ELSE db[m]]

\* Radio.updateNodeDB: create the entry with Num = n if absent, apply the
\* mutation, set LastHeard to the current time t, store it back.
updateNodeDB(db, n, field, v, t) ==
    LET old == IF n \in DOMAIN db THEN db[n]
               ELSE [num |-> n, user |-> 0, pos |-> 0, dm |-> 0, lh |-> 0]
        upd == CASE field = "user" -> [old EXCEPT !.user = v]
                 [] field = "pos" -> [old EXCEPT !.pos = v]
                 [] field = "dm" -> [old EXCEPT !.dm = v]
        new == [upd EXCEPT !.lh = t]
    IN  [m \in DOMAIN db \cup {n} |-> IF m = n THEN new ELSE db[m]]

(* ------------------------- stream session: reader --------------------- *)
\* A faulty handshake that writes Config.Device before the Channel.
HandshakeMsgConfigFirst(step, req, entry) ==
    CASE step = 1 -> FromRadio("MyInfo", Self, MinAppVersion, "", NoInfo, NoPkt)
      [] step = 2 -> FromRadio("Metadata", 0, 0, "", NoInfo, NoPkt)
      [] step = 3 -> FromRadio("NodeInfo", Self, 0, "self",
                               [num |-> Self, user |-> Self, pos |-> 0, dm |-> 0,
                                lh |-> 0],
                               NoPkt)
      [] step = 4 -> FromRadio("NodeInfo", entry.num, 0, "db", entry, NoPkt)
      [] step = 5 -> FromRadio("Config", 0, 0, "Device", NoInfo, NoPkt)
      [] step = 6 -> FromRadio("Channel", 0, 0, "PRIMARY", NoInfo, NoPkt)
      [] step = 7 -> FromRadio("ConfigCompleteId", 0, req, "", NoInfo, NoPkt)

\* handleToRadioWantConfigID: the message written at each step.  Steps:
\* 1 MyInfo, 2 Metadata, 3 NodeInfo (self), 4 NodeInfo (a NodeDB entry),
\* 5 Channel, 6 Config.Device, 7 ConfigCompleteId.
HandshakeMsg(step, req, entry) ==
    CASE step = 1 -> FromRadio("MyInfo", Self, MinAppVersion, "", NoInfo, NoPkt)
      [] step = 2 -> FromRadio("Metadata", 0, 0, "", NoInfo, NoPkt)
      [] step = 3 -> FromRadio("NodeInfo", Self, 0, "self",
                               [num |-> Self, user |-> Self, pos |-> 0, dm |-> 0,
                                lh |-> 0],
                               NoPkt)
      [] step = 4 -> FromRadio("NodeInfo", entry.num, 0, "db", entry, NoPkt)
      [] step = 5 -> FromRadio("Channel", 0, 0, "PRIMARY", NoInfo, NoPkt)
      [] step = 6 -> FromRadio("Config", 0, 0, "Device", NoInfo, NoPkt)
      [] step = 7 -> FromRadio("ConfigCompleteId", 0, req, "", NoInfo, NoPkt)

\* handleToRadioWantConfigID: the step that follows a completed write; 0 when
\* the handshake is over.  more = NodeDB entries are still to be written.
HandshakeNext(step, more) ==
    CASE step \in {1, 2, 5, 6} -> step + 1
      [] step = 3 -> IF more THEN 4 ELSE 5
      [] step = 4 -> IF more THEN 4 ELSE 5
      [] step = 7 -> 0

\* The GetChannelResponse reply of the reader to packet p, with packet id pid.
AdminReply(p, pid) ==
    FromRadio("Packet", 0, 0, "", NoInfo,
              [id |-> pid, from |-> Self, to |-> Self, variant |-> "decoded",
               key |-> "", port |-> "ADMIN",
               body |-> "GetChannelResponse:0:DISABLED", req |-> p.id])

\* A faulty reader that answers every admin message that parses.
ReaderSwitchAnyAdmin(m) ==
    CASE m.t = "Disconnect" -> "bye"
      [] m.t = "WantConfigId" -> "handshake"
      [] m.t = "Packet" /\ m.pkt.variant = "decoded" /\ m.pkt.port = "ADMIN" ->
            CASE m.pkt.body = "bad" -> "error"
              [] OTHER -> "adminid"
      [] OTHER -> "loop"

\* A faulty reader that sends the configuration for an unknown variant too.
ReaderSwitchConfigAlways(m) ==
    CASE m.t = "Disconnect" -> "bye"
      [] m.t = "WantConfigId" -> "handshake"
      [] m.t = "Packet" /\ m.pkt.variant = "decoded" /\ m.pkt.port = "ADMIN" ->
            CASE m.pkt.body = "bad" -> "error"
              [] m.pkt.body = "GetChannelRequest" -> "adminid"
              [] OTHER -> "loop"
      [] OTHER -> "handshake"

\* What the reader does with a ToRadio it read.
ReaderSwitch(m) ==
    CASE m.t = "Disconnect" -> "bye"
      [] m.t = "WantConfigId" -> "handshake"
      [] m.t = "Packet" /\ m.pkt.variant = "decoded" /\ m.pkt.port = "ADMIN" ->
            CASE m.pkt.body = "bad" -> "error"
              [] m.pkt.body = "GetChannelRequest" -> "adminid"
              [] OTHER -> "loop"
      [] OTHER -> "loop"

\* The session starts: handleConn spawns the reader and the writer.
StartSession(s, kind) ==
    /\ spc[s] = "none"
    /\ spc' = Upd(spc, s, "run")
    /\ skind' = Upd(skind, s, kind)
    /\ rpc' = Upd(rpc, s, "loop")
    /\ wpc' = Upd(wpc, s, "start")
    /\ UNCHANGED <<sCancel, sErr, rreq, rstep, rsnap, rmsg, reads, wmsg, werr,
                   wq, cliClosed, out>>

\* Radio.Conn: an in-memory session on the caller's context.
Conn(s) ==
    /\ StartSession(s, "mem")
    /\ UNCHANGED <<radioVars, bridgeVars, histVars, dbVars, fnVars>>

\* Reader, top of the loop: return nil when the group context is done.
ReaderLoop(s) ==
    /\ rpc[s] = "loop"
    /\ rpc' = Upd(rpc, s, IF SessDone(s) THEN "done" ELSE "read")
    /\ UNCHANGED <<radioVars, bridgeVars, histVars, dbVars, fnVars, spc, skind, sCancel, sErr,
                   rreq, rstep, rsnap, rmsg, reads, wpc, wmsg, werr, wq,
                   cliClosed, out>>

\* Reader: streamConn.Read returns the client's next ToRadio.
ReaderRead(s, m) ==
    /\ rpc[s] = "read"
    /\ ~cliClosed[s]
    /\ reads[s] < maxReads
    /\ reads' = Upd(reads, s, reads[s] + 1)
    /\ LET to == ReaderSwitch(m) IN
         CASE to = "handshake" ->
                /\ rpc' = Upd(rpc, s, "write")
                /\ rreq' = Upd(rreq, s, m.id)
                /\ rstep' = Upd(rstep, s, 1)
                /\ rmsg' = Upd(rmsg, s, HandshakeMsg(1, m.id, NoInfo))
                /\ wq' = Upd(wq, s, Append(wq[s], "r"))
                /\ UNCHANGED <<sCancel, sErr>>
           [] to = "adminid" ->
                /\ rpc' = Upd(rpc, s, "adminid")
                /\ rmsg' = Upd(rmsg, s, AdminReply(m.pkt, 0))
                /\ UNCHANGED <<rreq, rstep, wq, sCancel, sErr>>
           [] to = "error" ->
                /\ rpc' = Upd(rpc, s, "done")
                /\ sErr' = Upd(sErr, s, IF sErr[s] = "" THEN "admin" ELSE sErr[s])
                /\ sCancel' = Upd(sCancel, s, TRUE)
                /\ UNCHANGED <<rreq, rstep, rmsg, wq>>
           [] OTHER ->
                /\ rpc' = Upd(rpc, s, to)
                /\ UNCHANGED <<rreq, rstep, rmsg, wq, sCancel, sErr>>
    /\ asked' = IF m.t = "WantConfigId" THEN Upd(asked, s, Append(asked[s], m.id))
                ELSE asked
    /\ got' = Upd(got, s, Append(got[s], m))
    /\ UNCHANGED <<radioVars, bridgeVars, issued, published, fan, snaps,
                   applied, dbVars, fnVars, spc, skind, rsnap, wpc, wmsg, werr,
                   cliClosed, out>>

\* The frame that does not deserialize as ToRadio, as the history records it.
MalformedFrame == ToRadio("Malformed", 0, NoPkt)

\* Reader: streamConn.Read reports a decode error for a frame whose payload
\* does not deserialize as ToRadio; the reader returns the error.
ReaderReadDecodeErr(s) ==
    /\ rpc[s] = "read"
    /\ ~cliClosed[s]
    /\ reads[s] < maxReads
    /\ reads' = Upd(reads, s, reads[s] + 1)
    /\ got' = Upd(got, s, Append(got[s], MalformedFrame))
    /\ rpc' = Upd(rpc, s, "done")
    /\ sErr' = Upd(sErr, s, IF sErr[s] = "" THEN "read" ELSE sErr[s])
    /\ sCancel' = Upd(sCancel, s, TRUE)
    /\ UNCHANGED <<radioVars, bridgeVars, issued, published, fan, asked, snaps,
                   applied, dbVars, fnVars, spc, skind, rreq, rstep, rsnap,
                   rmsg, wpc, wmsg, werr, wq, cliClosed, out>>

\* Reader: streamConn.Read fails because the client closed the stream.
ReaderReadErr(s) ==
    /\ rpc[s] = "read"
    /\ cliClosed[s]
    /\ rpc' = Upd(rpc, s, "done")
    /\ sErr' = Upd(sErr, s, IF sErr[s] = "" THEN "read" ELSE sErr[s])
    /\ sCancel' = Upd(sCancel, s, TRUE)
    /\ UNCHANGED <<radioVars, bridgeVars, histVars, dbVars, fnVars, spc, skind, rreq, rstep,
                   rsnap, rmsg, reads, wpc, wmsg, werr, wq, cliClosed, out>>

\* Reader, GetChannelRequest: r.nextPacketID() for the reply, then Write.
ReaderAdminID(s) ==
    /\ rpc[s] = "adminid"
    /\ mu = Free
    /\ packetID < MaxPacketID
    /\ packetID' = nextPacketID(packetID)
    /\ issued' = Append(issued, packetID')
    /\ rmsg' = Upd(rmsg, s, [rmsg[s] EXCEPT !.pkt.id = packetID'])
    /\ rstep' = Upd(rstep, s, 0)
    /\ rpc' = Upd(rpc, s, "write")
    /\ wq' = Upd(wq, s, Append(wq[s], "r"))
    /\ UNCHANGED <<cfg, ctxDone, runpc, runErr, bcpc, bcid, ticks, lpc, mu, subs,
                   nodeDB, bridgeVars, published, fan, asked, snaps, got, applied,
                   dbVars, fnVars, spc, skind,
                   sCancel, sErr, rreq, rsnap, reads, wpc, wmsg, werr,
                   cliClosed, out>>

\* Reader, handshake: r.getNodeDB() after the self NodeInfo was written.
ReaderSnap(s) ==
    /\ rpc[s] = "snap"
    /\ mu = Free
    /\ \E sq \in getNodeDB(nodeDB) :
         LET step == HandshakeNext(3, Len(sq) > 0) IN
         /\ rstep' = Upd(rstep, s, step)
         /\ rmsg' = Upd(rmsg, s, HandshakeMsg(step, rreq[s],
                                  IF Len(sq) > 0 THEN Deref(nodeDB, Head(sq))
                                  ELSE NoInfo))
         /\ rsnap' = Upd(rsnap, s, IF Len(sq) > 0 THEN Tail(sq) ELSE sq)
         /\ snaps' = Upd(snaps, s,
                         Append(snaps[s], [i \in 1..Len(sq) |-> sq[i].val]))
    /\ rpc' = Upd(rpc, s, "write")
    /\ wq' = Upd(wq, s, Append(wq[s], "r"))
    /\ UNCHANGED <<radioVars, bridgeVars, issued, published, fan, asked, got,
                   applied, dbVars, fnVars, spc, skind, sCancel, sErr, rreq, reads,
                   wpc, wmsg, werr, cliClosed, out>>

\* Reader: a Write of the reader fails because the client closed the stream.
ReaderWriteErr(s) ==
    /\ rpc[s] = "write"
    /\ cliClosed[s]
    /\ rpc' = Upd(rpc, s, "done")
    /\ sErr' = Upd(sErr, s, IF sErr[s] = "" THEN "write" ELSE sErr[s])
    /\ sCancel' = Upd(sCancel, s, TRUE)
    /\ wq' = Upd(wq, s, SelectSeq(wq[s], LAMBDA w : w # "r"))
    /\ UNCHANGED <<radioVars, bridgeVars, histVars, dbVars, fnVars, spc, skind, rreq, rstep,
                   rsnap, rmsg, reads, wpc, wmsg, werr, cliClosed, out>>

(* ------------------------- stream session: writer --------------------- *)
\* Writer: make the channel and register it in r.fromRadioSubscribers.
WriterSubscribe(s) ==
    /\ wpc[s] = "start"
    /\ mu = Free
    /\ subs' = subs \cup {s}
    /\ wpc' = Upd(wpc, s, "select")
    /\ UNCHANGED <<cfg, ctxDone, runpc, runErr, bcpc, bcid, ticks, lpc, mu,
                   packetID, nodeDB, bridgeVars, histVars, dbVars, fnVars, spc, skind, sCancel,
                   sErr, rpc, rreq, rstep, rsnap, rmsg, reads, wmsg, werr, wq,
                   cliClosed, out>>

\* Writer, select: the group context is done; return nil.
WriterCtxDone(s) ==
    /\ wpc[s] = "select"
    /\ SessDone(s)
    /\ wpc' = Upd(wpc, s, "unsub")
    /\ UNCHANGED <<radioVars, bridgeVars, histVars, dbVars, fnVars, spc, skind, sCancel, sErr,
                   rpc, rreq, rstep, rsnap, rmsg, reads, wmsg, werr, wq,
                   cliClosed, out>>

\* Writer: its Write fails because the client closed the stream.
WriterWriteErr(s) ==
    /\ wpc[s] = "write"
    /\ cliClosed[s]
    /\ wpc' = Upd(wpc, s, "unsub")
    /\ werr' = Upd(werr, s, TRUE)
    /\ wq' = Upd(wq, s, SelectSeq(wq[s], LAMBDA w : w # "w"))
    /\ UNCHANGED <<radioVars, bridgeVars, histVars, dbVars, fnVars, spc, skind, sCancel, sErr,
                   rpc, rreq, rstep, rsnap, rmsg, reads, wmsg, cliClosed, out>>

\* Writer, deferred: delete the channel from r.fromRadioSubscribers under
\* r.mu, then return; a returned error cancels the group context.
WriterUnsub(s) ==
    /\ wpc[s] = "unsub"
    /\ mu = Free
    /\ subs' = subs \ {s}
    /\ wpc' = Upd(wpc, s, "done")
    /\ sCancel' = Upd(sCancel, s, sCancel[s] \/ werr[s])
    /\ sErr' = Upd(sErr, s, IF werr[s] /\ sErr[s] = "" THEN "write" ELSE sErr[s])
    /\ UNCHANGED <<cfg, ctxDone, runpc, runErr, bcpc, bcid, ticks, lpc, mu,
                   packetID, nodeDB, bridgeVars, histVars, dbVars, fnVars, spc, skind, rpc,
                   rreq, rstep, rsnap, rmsg, reads, wmsg, werr, wq, cliClosed,
                   out>>

\* handleConn: eg.Wait returns once both tasks returned; the deferred
\* streamConn.Close closes the stream.
SessionWait(s) ==
    /\ spc[s] = "run"
    /\ RDone(s)
    /\ wpc[s] = "done"
    /\ spc' = Upd(spc, s, "closed")
    /\ UNCHANGED <<radioVars, bridgeVars, histVars, dbVars, fnVars, skind, sCancel, sErr, rpc,
                   rreq, rstep, rsnap, rmsg, reads, wpc, wmsg, werr, wq,
                   cliClosed, out>>

(* ------------------------------- client ------------------------------- *)
\* The client reads one frame: the Write at the head of the stream completes.
ClientRead(s) ==
    /\ spc[s] = "run"
    /\ ~cliClosed[s]
    /\ wq[s] # <<>>
    /\ IF Head(wq[s]) = "w"
       THEN /\ out' = Upd(out, s, Append(out[s], wmsg[s]))
            /\ wpc' = Upd(wpc, s, "select")
            /\ wq' = Upd(wq, s, Tail(wq[s]))
            /\ UNCHANGED <<rpc, rstep, rsnap, rmsg>>
       ELSE LET more == Len(rsnap[s]) > 0
                step == IF rstep[s] = 0 THEN 0
                        ELSE HandshakeNext(rstep[s], more)
            IN
            /\ out' = Upd(out, s, Append(out[s], rmsg[s]))
            /\ UNCHANGED wpc
            /\ IF rstep[s] = 3
               THEN /\ rpc' = Upd(rpc, s, "snap")
                    /\ wq' = Upd(wq, s, Tail(wq[s]))
                    /\ UNCHANGED <<rstep, rsnap, rmsg>>
               ELSE IF step = 0
               THEN /\ rpc' = Upd(rpc, s, "loop")
                    /\ wq' = Upd(wq, s, Tail(wq[s]))
                    /\ UNCHANGED <<rstep, rsnap, rmsg>>
               ELSE /\ rstep' = Upd(rstep, s, step)
                    /\ rmsg' = Upd(rmsg, s, HandshakeMsg(step, rreq[s],
                                    IF step = 4
                                    THEN Deref(nodeDB, Head(rsnap[s]))
                                    ELSE NoInfo))
                    /\ rsnap' = Upd(rsnap, s,
                                    IF step = 4 THEN Tail(rsnap[s]) ELSE rsnap[s])
                    /\ wq' = Upd(wq, s, Append(Tail(wq[s]), "r"))
                    /\ UNCHANGED rpc
    /\ UNCHANGED <<radioVars, bridgeVars, histVars, dbVars, fnVars, spc, skind, sCancel, sErr,
                   rreq, reads, wmsg, werr, cliClosed>>

\* The client closes its end of the stream.
ClientClose(s) ==
    /\ spc[s] = "run"
    /\ ~cliClosed[s]
    /\ cliClosed' = Upd(cliClosed, s, TRUE)
    /\ UNCHANGED <<radioVars, bridgeVars, histVars, dbVars, fnVars, spc, skind, sCancel, sErr,
                   rpc, rreq, rstep, rsnap, rmsg, reads, wpc, wmsg, werr, wq,
                   out>>

(* ----------------------------- MQTT bridge ---------------------------- *)
\* A faulty TryDecode that takes every packet for decoded.
TryDecodeAnything(pkt, key) == "ok"

\* radio.TryDecode(packet, key): "ok" with the Data, or the error.
TryDecode(pkt, key) ==
    CASE pkt.variant = "decoded" -> "ok"
      [] pkt.variant = "encrypted" ->
            IF pkt.key = key /\ pkt.body # "garbage" THEN "ok" ELSE "ErrDecrypt"
      [] OTHER -> "ErrUnknownPayloadType"

\* A faulty first step that checks the channel before it dispatches.
tryHandleStartPrimaryOnly(m) ==
    IF m.ok /\ m.chan = Primary THEN "lock" ELSE "idle"

\* tryHandleMQTTMessage, first step: unmarshal the envelope, then dispatch it
\* to the FromRadio subscribers ("lock"), or return the unmarshal error.
tryHandleStart(m) == IF m.ok THEN "lock" ELSE "idle"

\* A faulty switch that stores the metrics of every Telemetry that parses.
tryHandleRestAnyTelemetry(m) ==
    IF m.chan # Primary THEN "none"
    ELSE IF TryDecode(m.pkt, PrimaryPSK) # "ok" THEN "none"
    ELSE CASE m.pkt.port = "NODEINFO" /\ m.pkt.body = "ok" -> "user"
           [] m.pkt.port = "POSITION" /\ m.pkt.body = "ok" -> "pos"
           [] m.pkt.port = "TELEMETRY" /\ m.pkt.body # "garbage" -> "dm"
           [] OTHER -> "none"

\* A faulty callback that handles the envelopes of every channel.
tryHandleRestAnyChannel(m) ==
    IF TryDecode(m.pkt, PrimaryPSK) # "ok" THEN "none"
    ELSE CASE m.pkt.port = "NODEINFO" /\ m.pkt.body = "ok" -> "user"
           [] m.pkt.port = "POSITION" /\ m.pkt.body = "ok" -> "pos"
           [] m.pkt.port = "TELEMETRY" /\ m.pkt.body = "ok" -> "dm"
           [] OTHER -> "none"

\* tryHandleMQTTMessage after the dispatch: the NodeDB field the message
\* updates, or "none" (other channel, decode error, payload error, log only).
tryHandleRest(m) ==
    IF m.chan # Primary THEN "none"
    ELSE IF TryDecode(m.pkt, PrimaryPSK) # "ok" THEN "none"
    ELSE CASE m.pkt.port = "NODEINFO" /\ m.pkt.body = "ok" -> "user"
           [] m.pkt.port = "POSITION" /\ m.pkt.body = "ok" -> "pos"
           [] m.pkt.port = "TELEMETRY" /\ m.pkt.body = "ok" -> "dm"
           [] OTHER -> "none"

\* A faulty dispatch loop that leaves one of several subscribers out.
DispatchTargetsSkipOne(set) ==
    IF Cardinality(set) > 1 THEN set \ {CHOOSE c \in set : TRUE} ELSE set

\* dispatchMessageToFromRadio: the channels its loop sends to.
DispatchTargets(set) == set

\* The MQTT client calls handleMQTTMessage with message m; Run registered the
\* handler after mqtt.Connect succeeded and never removes it.
BridgeDeliver(t, m) ==
    /\ bpc[t] = "idle"
    /\ runpc \in {"running", "returned"}
    /\ msgCount < MaxMsgs
    /\ msgCount' = msgCount + 1
    /\ bmsg' = Upd(bmsg, t, m)
    /\ bseq' = Upd(bseq, t, msgCount')
    /\ bpc' = Upd(bpc, t, tryHandleStart(m))
    /\ UNCHANGED <<radioVars, sessVars, cur, todo, histVars, dbVars, fnVars>>

\* dispatchMessageToFromRadio: take r.mu and start ranging over the
\* subscribers; with none, unlock and return.
BridgeLock(t) ==
    /\ bpc[t] = "lock"
    /\ mu = Free
    /\ fan' = (bseq[t] :> subs) @@ fan
    /\ LET targets == DispatchTargets(subs) IN
         IF targets = {}
         THEN /\ bpc' = Upd(bpc, t, "check")
              /\ UNCHANGED <<mu, cur, todo>>
         ELSE /\ bpc' = Upd(bpc, t, "send")
              /\ mu' = t
              /\ \E c \in targets :
                    /\ cur' = Upd(cur, t, c)
                    /\ todo' = Upd(todo, t, targets \ {c})
    /\ UNCHANGED <<cfg, ctxDone, runpc, runErr, bcpc, bcid, ticks, lpc,
                   packetID, subs, nodeDB, sessVars, bmsg, bseq, msgCount,
                   issued, published, asked, snaps, got, applied, dbVars, fnVars>>

\* dispatchMessageToFromRadio: ch <- msg on the unbuffered channel, taken by
\* the writer waiting in its select; after the last one, unlock and return.
BridgeSend(t) ==
    /\ bpc[t] = "send"
    /\ wpc[cur[t]] = "select"
    /\ wmsg' = Upd(wmsg, cur[t],
                   FromRadio("Packet", 0, 0, "", NoInfo, bmsg[t].pkt))
    /\ wpc' = Upd(wpc, cur[t], "write")
    /\ wq' = Upd(wq, cur[t], Append(wq[cur[t]], "w"))
    /\ IF todo[t] = {}
       THEN /\ bpc' = Upd(bpc, t, "check")
            /\ mu' = Free
            /\ UNCHANGED <<cur, todo>>
       ELSE /\ \E c \in todo[t] :
                 /\ cur' = Upd(cur, t, c)
                 /\ todo' = Upd(todo, t, todo[t] \ {c})
            /\ UNCHANGED <<bpc, mu>>
    /\ UNCHANGED <<cfg, ctxDone, runpc, runErr, bcpc, bcid, ticks, lpc,
                   packetID, subs, nodeDB, histVars, dbVars, fnVars, bmsg, bseq, msgCount,
                   spc, skind, sCancel, sErr, rpc, rreq, rstep, rsnap, rmsg,
                   reads, werr, cliClosed, out>>

\* tryHandleMQTTMessage: the primary-channel check, TryDecode and the portnum
\* switch; return unless the NodeDB is to be updated.
BridgeCheck(t) ==
    /\ bpc[t] = "check"
    /\ bpc' = Upd(bpc, t, IF tryHandleRest(bmsg[t]) = "none" THEN "idle"
                           ELSE "update")
    /\ UNCHANGED <<radioVars, sessVars, bmsg, bseq, cur, todo, msgCount,
                   histVars, dbVars, fnVars>>

\* tryHandleMQTTMessage: r.updateNodeDB for the packet's sender, then return.
BridgeUpdate(t) ==
    /\ bpc[t] = "update"
    /\ mu = Free
    /\ nodeDB' = updateNodeDB(nodeDB, bmsg[t].pkt.from,
                              tryHandleRest(bmsg[t]), bmsg[t].pkt.id, now)
    /\ applied' = Append(applied, [n |-> bmsg[t].pkt.from,
                                   field |-> tryHandleRest(bmsg[t]),
                                   v |-> bmsg[t].pkt.id, at |-> now])
    /\ bpc' = Upd(bpc, t, "idle")
    /\ UNCHANGED <<cfg, ctxDone, runpc, runErr, bcpc, bcid, ticks, lpc, mu,
                   packetID, subs, sessVars, bmsg, bseq, cur, todo, msgCount,
                   issued, published, fan, asked, snaps, got, dbVars, fnVars>>

(* ------------------------- callers of the NodeDB ---------------------- *)
\* The clock advances by a second.
Tick ==
    /\ now < MaxTime
    /\ now' = now + 1
    /\ UNCHANGED <<radioVars, sessVars, bridgeVars, histVars, fnVars, held,
                   heldExp, heldKeys>>

\* A caller takes r.getNodeDB() and keeps the result.
SnapTake ==
    /\ held = <<>>
    /\ mu = Free
    /\ DOMAIN nodeDB # {}
    /\ \E sq \in getNodeDB(nodeDB) :
         /\ held' = sq
         /\ heldExp' = [i \in 1..Len(sq) |-> sq[i].val]
    /\ heldKeys' = DOMAIN nodeDB
    /\ UNCHANGED <<radioVars, sessVars, bridgeVars, histVars, fnVars, now>>

\* The caller writes the User of entry i of the result it holds: a store
\* through the pointer it was given.
SnapModify(i) ==
    /\ i \in 1..Len(held)
    /\ heldExp[i].user # Scribble
    /\ heldExp' = [heldExp EXCEPT ![i].user = Scribble]
    /\ IF held[i].ref = 0
       THEN /\ held' = [held EXCEPT ![i].val.user = Scribble]
            /\ UNCHANGED nodeDB
       ELSE /\ nodeDB' = [nodeDB EXCEPT ![held[i].ref].user = Scribble]
            /\ UNCHANGED held
    /\ UNCHANGED <<cfg, ctxDone, runpc, runErr, bcpc, bcid, ticks, lpc, mu,
                   packetID, subs, sessVars, bridgeVars, histVars, fnVars,
                   now, heldKeys>>

(* ---------------------------- Run and its tasks ----------------------- *)
\* A faulty beacon loop that waits for the first tick before it broadcasts.
BeaconStartAtTick(c, k) ==
    IF (k = "NodeInfo" /\ c.ni) \/ (k = "Position" /\ c.pos)
    THEN "wait" ELSE "off"

\* Run: where the beacon goroutine of kind k starts under configuration c: it
\* is started only with an interval > 0, and its loop broadcasts first.
BeaconStart(c, k) ==
    IF (k = "NodeInfo" /\ c.ni) \/ (k = "Position" /\ c.pos)
    THEN "bcast" ELSE "off"

\* A faulty beacon loop that returns when a broadcast fails.
AfterBroadcastStopOnError(ok) == IF ok THEN "wait" ELSE "done"

\* Beacon loop: after broadcastNodeInfo / broadcastPosition returned, with or
\* without an error (which is logged), the loop goes to its select.
AfterBroadcast(ok) == "wait"

\* Run: mqtt.Connect succeeds; register the channel handlers and start the
\* beacon goroutines (interval > 0) and the listener (TCPListenAddr set).
RunStart ==
    /\ runpc = "new"
    /\ runpc' = "running"
    /\ bcpc' = [k \in Beacons |-> BeaconStart(cfg, k)]
    /\ lpc' = IF cfg.tcp THEN "listen" ELSE "off"
    /\ UNCHANGED <<cfg, ctxDone, runErr, bcid, ticks, mu, packetID, subs,
                   nodeDB, sessVars, bridgeVars, histVars, dbVars, fnVars>>

\* Run: mqtt.Connect fails; Run returns the error.
RunConnectErr ==
    /\ runpc = "new"
    /\ runpc' = "failed"
    /\ UNCHANGED <<cfg, ctxDone, runErr, bcpc, bcid, ticks, lpc, mu, packetID,
                   subs, nodeDB, sessVars, bridgeVars, histVars, dbVars, fnVars>>

\* The beacon packet sendPacket publishes: sendPacket stores the new id in
\* r.packetID and leaves packet.Id as built by the caller.
BeaconPkt(k) ==
    [id |-> 0, from |-> Self, to |-> Broadcast, variant |-> "decoded",
     key |-> "", port |-> IF k = "NodeInfo" THEN "NODEINFO" ELSE "POSITION",
     body |-> "ok", req |-> 0]

\* sendPacket: r.nextPacketID() (under r.mu).
BeaconNextID(k) ==
    /\ bcpc[k] = "bcast"
    /\ mu = Free
    /\ packetID < MaxPacketID
    /\ packetID' = nextPacketID(packetID)
    /\ bcid' = Upd(bcid, k, packetID')
    /\ issued' = Append(issued, packetID')
    /\ bcpc' = Upd(bcpc, k, "store")
    /\ UNCHANGED <<cfg, ctxDone, runpc, runErr, ticks, lpc, mu, subs, nodeDB,
                   sessVars, bridgeVars, published, fan, asked, snaps, got,
                   applied, dbVars, fnVars>>

\* sendPacket: r.packetID = <the returned value>, a store outside r.mu.
BeaconStore(k) ==
    /\ bcpc[k] = "store"
    /\ packetID' = bcid[k]
    /\ bcpc' = Upd(bcpc, k, "publish")
    /\ UNCHANGED <<cfg, ctxDone, runpc, runErr, bcid, ticks, lpc, mu, subs,
                   nodeDB, sessVars, bridgeVars, histVars, dbVars, fnVars>>

\* sendPacket: r.mqtt.Publish of the envelope on the primary channel, which
\* succeeds (ok) or fails; on an error the beacon loop logs it.  Then the
\* loop waits.
BeaconPublish(k, ok) ==
    /\ bcpc[k] = "publish"
    /\ published' = Append(published,
                           [chan |-> Primary, gateway |-> Self,
                            pkt |-> BeaconPkt(k), ok |-> ok])
    /\ bcpc' = Upd(bcpc, k, AfterBroadcast(ok))
    /\ UNCHANGED <<cfg, ctxDone, runpc, runErr, bcid, ticks, lpc, mu, packetID,
                   subs, nodeDB, sessVars, bridgeVars, issued, fan, asked,
                   snaps, got, applied, dbVars, fnVars>>

\* Beacon loop, select: the ticker fires.
BeaconTick(k) ==
    /\ bcpc[k] = "wait"
    /\ ticks[k] < MaxTicks
    /\ ticks' = Upd(ticks, k, ticks[k] + 1)
    /\ bcpc' = Upd(bcpc, k, "bcast")
    /\ UNCHANGED <<cfg, ctxDone, runpc, runErr, bcid, lpc, mu, packetID, subs,
                   nodeDB, sessVars, bridgeVars, histVars, dbVars, fnVars>>

\* Beacon loop, select: the group context is done; return nil.
BeaconCtxDone(k) ==
    /\ bcpc[k] = "wait"
    /\ RunCtxDone
    /\ bcpc' = Upd(bcpc, k, "done")
    /\ UNCHANGED <<cfg, ctxDone, runpc, runErr, bcid, ticks, lpc, mu, packetID,
                   subs, nodeDB, sessVars, bridgeVars, histVars, dbVars, fnVars>>

\* listenTCP: net.Listen succeeds (ok) or fails; a failure is returned and
\* cancels Run's group.
Listen(ok) ==
    /\ lpc = "listen"
    /\ lpc' = IF ok THEN "accept" ELSE "done"
    /\ runErr' = (runErr \/ ~ok)
    /\ UNCHANGED <<cfg, ctxDone, runpc, bcpc, bcid, ticks, mu, packetID, subs,
                   nodeDB, sessVars, bridgeVars, histVars, dbVars, fnVars>>

\* listenTCP: l.Accept returns a connection; handleConn runs on Run's group
\* context in a new goroutine and the loop accepts again.
Accept(s) ==
    /\ lpc = "accept"
    /\ StartSession(s, "tcp")
    /\ UNCHANGED <<radioVars, bridgeVars, histVars, dbVars, fnVars>>

\* Run: eg.Wait returns once every started task has returned.
RunWait ==
    /\ runpc = "running"
    /\ \A k \in Beacons : bcpc[k] \in {"off", "done"}
    /\ lpc \in {"off", "done"}
    /\ runpc' = "returned"
    /\ UNCHANGED <<cfg, ctxDone, runErr, bcpc, bcid, ticks, lpc, mu, packetID,
                   subs, nodeDB, sessVars, bridgeVars, histVars, dbVars, fnVars>>

\* The caller cancels the context passed to Run and Conn.
Cancel ==
    /\ ~ctxDone
    /\ ctxDone' = TRUE
    /\ UNCHANGED <<cfg, runpc, runErr, bcpc, bcid, ticks, lpc, mu, packetID,
                   subs, nodeDB, sessVars, bridgeVars, histVars, dbVars, fnVars>>

(* ------------------------------ behaviour ----------------------------- *)
\* A caller calls NewRadio(ncfg).
NewRadioCall ==
    /\ nres = NotCalled
    /\ nres' = NewRadio(ncfg)
    /\ UNCHANGED <<radioVars, sessVars, bridgeVars, histVars, dbVars, ncfg,
                   tdVars, scVars, envVars, clVars>>

\* A caller calls radio.TryDecode(tpkt, tkey); the packet is only read.
TryDecodeCall ==
    /\ tres = NoResult
    /\ tres' = TryDecodeData(tpkt, tkey)
    /\ UNCHANGED <<radioVars, sessVars, bridgeVars, histVars, dbVars, nrVars,
                   tpkt, tkey, scVars, envVars, clVars>>

\* StreamConn.Write(fmsg) on one end of the stream.
StreamWrite ==
    /\ wire = fnoise
    /\ Len(MarshalMsg(fmsg)) <= MaxFramePayload
    /\ wire' = wire \o encode(MarshalMsg(fmsg))
    /\ UNCHANGED <<radioVars, sessVars, bridgeVars, histVars, dbVars, nrVars,
                   tdVars, envVars, clVars, fmsg, fnoise, fres>>

\* StreamConn.Read on the other end, into a message of fmsg's type.
StreamRead ==
    /\ wire # fnoise
    /\ fres = NoRead
    /\ fres' = Read(fmsg.type, wire, 1)
    /\ UNCHANGED <<radioVars, sessVars, bridgeVars, histVars, dbVars, nrVars,
                   tdVars, envVars, clVars, fmsg, fnoise, wire>>

\* Everything but the client.
restVars ==
    <<radioVars, sessVars, bridgeVars, histVars, dbVars, nrVars, tdVars,
      scVars, envVars>>

\* Client.Connect is called: sendGetConfig stores a random id r as
\* State.configID and writes WantConfigId(r); when the write fails Connect
\* returns that error, otherwise it makes cfgComplete, starts the read loop
\* and goes to its select.
ConnectCall(r, ok) ==
    /\ connpc = "idle"
    /\ State' = [State EXCEPT !.configID = r]
    /\ IF ok
       THEN /\ cfgComplete' = "open"
            /\ clpc' = "read"
            /\ connpc' = "select"
       ELSE /\ connpc' = "senderr"
            /\ UNCHANGED <<cfgComplete, clpc>>
    /\ UNCHANGED <<restVars, closes, cctx, recv, handled>>

\* The context passed to Connect ends (deadline or cancel), at any time.
CtxEnd ==
    /\ ~cctx
    /\ cctx' = TRUE
    /\ UNCHANGED <<restVars, State, connpc, clpc, cfgComplete, closes, recv,
                   handled>>

\* Connect, select: ctx.Done() is ready; return ErrTimeout.
ConnectTimeout ==
    /\ connpc = "select"
    /\ cctx
    /\ connpc' = "timeout"
    /\ UNCHANGED <<restVars, State, clpc, cfgComplete, closes, cctx, recv,
                   handled>>

\* Connect, select: cfgComplete is closed; return nil.
ConnectComplete ==
    /\ connpc = "select"
    /\ cfgComplete = "closed"
    /\ connpc' = "nil"
    /\ UNCHANGED <<restVars, State, clpc, cfgComplete, closes, cctx, recv,
                   handled>>

\* Read loop: Read fails; the error is logged and the loop continues.
LoopReadErr ==
    /\ clpc = "read"
    /\ Len(recv) < MaxRecv
    /\ recv' = Append(recv, [msg |-> ReadError, complete |-> Complete(State)])
    /\ UNCHANGED <<restVars, State, connpc, clpc, cfgComplete, closes, cctx,
                   handled>>

\* Read loop: Read returns message m; the switch stores it in the State; a
\* ConfigCompleteId goes on to close and SetComplete, Rebooted continues,
\* every other variant reaches the check of Complete and HandleMessage.
LoopRead(m) ==
    /\ clpc = "read"
    /\ Len(recv) < MaxRecv
    /\ recv' = Append(recv, [msg |-> m, complete |-> Complete(State)])
    /\ State' = Store(State, m)
    /\ clpc' = IF m.t = "ConfigCompleteId"
               THEN (IF ShouldClose(State) THEN "close" ELSE "set")
               ELSE "read"
    /\ handled' = IF ~Continues(m) /\ HandlerGate(State)
                  THEN Append(handled, Variant(m))
                  ELSE handled
    /\ UNCHANGED <<restVars, connpc, cfgComplete, closes, cctx>>

\* Read loop, ConfigCompleteId: close(cfgComplete).
LoopClose ==
    /\ clpc = "close"
    /\ cfgComplete' = "closed"
    /\ closes' = closes + 1
    /\ clpc' = "set"
    /\ UNCHANGED <<restVars, State, connpc, cctx, recv, handled>>

\* Read loop, ConfigCompleteId: c.State.SetComplete(true); continue.
LoopSetComplete ==
    /\ clpc = "set"
    /\ State' = SetComplete(State, TRUE)
    /\ clpc' = "read"
    /\ UNCHANGED <<restVars, connpc, cfgComplete, closes, cctx, recv, handled>>

Next ==
    \/ RunStart
    \/ RunConnectErr
    \/ RunWait
    \/ Cancel
    \/ \E k \in Beacons : BeaconNextID(k)
    \/ \E k \in Beacons : BeaconStore(k)
    \/ \E k \in Beacons, ok \in BOOLEAN : BeaconPublish(k, ok)
    \/ \E k \in Beacons : BeaconTick(k)
    \/ \E k \in Beacons : BeaconCtxDone(k)
    \/ \E ok \in BOOLEAN : Listen(ok)
    \/ \E s \in Sessions : Accept(s)
    \/ \E s \in Sessions : Conn(s)
    \/ \E s \in Sessions : ReaderLoop(s)
    \/ \E s \in Sessions, m \in ToRadioMsgs : ReaderRead(s, m)
    \/ \E s \in Sessions : ReaderReadErr(s)
    \/ \E s \in Sessions : ReaderReadDecodeErr(s)
    \/ \E s \in Sessions : ReaderAdminID(s)
    \/ \E s \in Sessions : ReaderSnap(s)
    \/ \E s \in Sessions : ReaderWriteErr(s)
    \/ \E s \in Sessions : WriterSubscribe(s)
    \/ \E s \in Sessions : WriterCtxDone(s)
    \/ \E s \in Sessions : WriterWriteErr(s)
    \/ \E s \in Sessions : WriterUnsub(s)
    \/ \E s \in Sessions : SessionWait(s)
    \/ \E s \in Sessions : ClientRead(s)
    \/ \E s \in Sessions : ClientClose(s)
    \/ \E t \in Bridges, m \in MqttMsgs(msgCount + 1) : BridgeDeliver(t, m)
    \/ \E t \in Bridges : BridgeLock(t)
    \/ \E t \in Bridges : BridgeSend(t)
    \/ \E t \in Bridges : BridgeCheck(t)
    \/ \E t \in Bridges : BridgeUpdate(t)
    \/ Tick
    \/ SnapTake
    \/ \E i \in 1..NumNodes : SnapModify(i)
    \/ NewRadioCall
    \/ TryDecodeCall
    \/ StreamWrite
    \/ StreamRead
    \/ \E r \in ReqIds, ok \in BOOLEAN : ConnectCall(r, ok)
    \/ CtxEnd
    \/ ConnectTimeout
    \/ ConnectComplete
    \/ LoopReadErr
    \/ \E m \in ClientMsgs : LoopRead(m)
    \/ LoopClose
    \/ LoopSetComplete

Spec == Init /\ [][Next]_vars

(* The radio in three environments.  In the first two the configuration has
   no beacon interval and no listen address, so Run starts no task and clients
   connect through Conn; each Next below is Next restricted to the inputs that
   environment offers. *)
IdleCfg == [tcp |-> FALSE, ni |-> FALSE, pos |-> FALSE]
InitIdle == Init /\ cfg = IdleCfg

\* Deliveries that fill the NodeDB: a NodeInfo of a peer and the radio's own.
NodeInfoMsgs(q) ==
    {Envelope(TRUE, Primary, MeshPkt(q, n, "decoded", "", "NODEINFO", "ok")) :
        n \in Nodes}

\* What a client sends in the handshake environment.
HandshakeInputs ==
    {ToRadio("Disconnect", 0, NoPkt)}
      \cup {ToRadio("WantConfigId", i, NoPkt) : i \in ReqIds}

\* One client that requests its configuration while NodeInfo arrives on MQTT.
NextHandshake ==
    \/ RunStart
    \/ RunWait
    \/ Cancel
    \/ Conn(1)
    \/ ReaderLoop(1)
    \/ \E m \in HandshakeInputs : ReaderRead(1, m)
    \/ ReaderReadErr(1)
    \/ ReaderSnap(1)
    \/ ReaderWriteErr(1)
    \/ WriterSubscribe(1)
    \/ WriterCtxDone(1)
    \/ WriterWriteErr(1)
    \/ WriterUnsub(1)
    \/ SessionWait(1)
    \/ ClientRead(1)
    \/ ClientClose(1)
    \/ \E m \in NodeInfoMsgs(msgCount + 1) : BridgeDeliver(1, m)
    \/ BridgeLock(1)
    \/ BridgeSend(1)
    \/ BridgeCheck(1)
    \/ BridgeUpdate(1)

SpecHandshake == InitIdle /\ [][NextHandshake]_vars

\* Deliveries in the fan-out environment: one that does not unmarshal, one on
\* another channel, one that does not decrypt and a text message.
FanoutMsgs(q) ==
    {Envelope(FALSE, "", NoPkt),
     Envelope(TRUE, Secondary, MeshPkt(q, Peer, "decoded", "", "POSITION", "ok")),
     Envelope(TRUE, Primary, MeshPkt(q, Peer, "encrypted", "wrong", "POSITION", "ok")),
     Envelope(TRUE, Primary, MeshPkt(q, Peer, "decoded", "", "TEXT", "ok"))}

\* Clients that only listen while envelopes arrive on MQTT, one at a time.
NextFanout ==
    \/ RunStart
    \/ RunWait
    \/ Cancel
    \/ \E s \in Sessions : Conn(s)
    \/ \E s \in Sessions : ReaderLoop(s)
    \/ \E s \in Sessions : ReaderReadErr(s)
    \/ \E s \in Sessions : WriterSubscribe(s)
    \/ \E s \in Sessions : WriterCtxDone(s)
    \/ \E s \in Sessions : WriterWriteErr(s)
    \/ \E s \in Sessions : WriterUnsub(s)
    \/ \E s \in Sessions : SessionWait(s)
    \/ \E s \in Sessions : ClientRead(s)
    \/ \E s \in Sessions : ClientClose(s)
    \/ \E m \in FanoutMsgs(msgCount + 1) : BridgeDeliver(1, m)
    \/ BridgeLock(1)
    \/ BridgeSend(1)
    \/ BridgeCheck(1)

SpecFanout == InitIdle /\ [][NextFanout]_vars

\* What a client sends in the Run environment.
AdminInputs == {ToRadio("Packet", 0, AdminPkt(77, "GetChannelRequest"))}

\* Run with its beacon tasks and listener, and one TCP client that sends
\* admin requests.
NextRun ==
    \/ RunStart
    \/ RunConnectErr
    \/ RunWait
    \/ Cancel
    \/ \E k \in Beacons : BeaconNextID(k)
    \/ \E k \in Beacons : BeaconStore(k)
    \/ \E k \in Beacons, ok \in BOOLEAN : BeaconPublish(k, ok)
    \/ \E k \in Beacons : BeaconTick(k)
    \/ \E k \in Beacons : BeaconCtxDone(k)
    \/ \E ok \in BOOLEAN : Listen(ok)
    \/ Accept(1)
    \/ ReaderLoop(1)
    \/ \E m \in AdminInputs : ReaderRead(1, m)
    \/ ReaderReadErr(1)
    \/ ReaderAdminID(1)
    \/ ReaderWriteErr(1)
    \/ WriterSubscribe(1)
    \/ WriterCtxDone(1)
    \/ WriterUnsub(1)
    \/ SessionWait(1)
    \/ ClientRead(1)
    \/ ClientClose(1)

SpecRun == Init /\ [][NextRun]_vars

\* Deliveries in the NodeDB environment: every kind of payload the callback
\* tells apart, from a peer; a NodeInfo of the radio's own node.
DbMsgs(q) ==
    {Envelope(FALSE, "", NoPkt),
     Envelope(TRUE, Secondary, MeshPkt(q, Peer, "decoded", "", "NODEINFO", "ok")),
     Envelope(TRUE, Primary, MeshPkt(q, Self, "decoded", "", "NODEINFO", "ok")),
     Envelope(TRUE, Primary, MeshPkt(q, Peer, "none", "", "NODEINFO", "ok")),
     Envelope(TRUE, Primary, MeshPkt(q, Peer, "encrypted", "wrong", "POSITION", "ok")),
     Envelope(TRUE, Primary, MeshPkt(q, Peer, "encrypted", "primary", "POSITION", "ok")),
     Envelope(TRUE, Primary, MeshPkt(q, Peer, "encrypted", "primary", "POSITION", "garbage"))}
      \cup {Envelope(TRUE, Primary, MeshPkt(q, Peer, "decoded", "", p, "ok")) :
               p \in {"NODEINFO", "POSITION", "TELEMETRY", "TEXT", "ROUTING",
                      "OTHER"}}
      \cup {Envelope(TRUE, Primary, MeshPkt(q, Peer, "decoded", "", p, "garbage")) :
               p \in {"NODEINFO", "TELEMETRY"}}
      \cup {Envelope(TRUE, Primary,
                     MeshPkt(q, Peer, "decoded", "", "TELEMETRY", "nometrics"))}

\* Two MQTT callbacks that update the NodeDB while the clock advances and a
\* caller takes a snapshot and writes to it; no client is connected.
NextNodeDB ==
    \/ RunStart
    \/ Tick
    \/ \E t \in Bridges, m \in DbMsgs(msgCount + 1) : BridgeDeliver(t, m)
    \/ \E t \in Bridges : BridgeLock(t)
    \/ \E t \in Bridges : BridgeCheck(t)
    \/ \E t \in Bridges : BridgeUpdate(t)
    \/ SnapTake
    \/ \E i \in 1..NumNodes : SnapModify(i)

SpecNodeDB == InitIdle /\ [][NextNodeDB]_vars

\* Deliveries in the bridge-error environment: one that does not unmarshal,
\* one that does not decrypt, one of an unknown payload type, one whose inner
\* payload does not parse, and a valid NodeInfo.
ErrMsgs(q) ==
    {Envelope(FALSE, "", NoPkt),
     Envelope(TRUE, Primary, MeshPkt(q, Peer, "encrypted", "wrong", "NODEINFO", "ok")),
     Envelope(TRUE, Primary, MeshPkt(q, Peer, "none", "", "NODEINFO", "ok")),
     Envelope(TRUE, Primary, MeshPkt(q, Peer, "decoded", "", "NODEINFO", "garbage")),
     Envelope(TRUE, Primary, MeshPkt(q, Peer, "decoded", "", "NODEINFO", "ok"))}

\* One listening client while good and bad envelopes arrive on MQTT.
NextBridgeErr ==
    \/ RunStart
    \/ RunWait
    \/ Cancel
    \/ Conn(1)
    \/ ReaderLoop(1)
    \/ ReaderReadErr(1)
    \/ WriterSubscribe(1)
    \/ WriterCtxDone(1)
    \/ WriterWriteErr(1)
    \/ WriterUnsub(1)
    \/ SessionWait(1)
    \/ ClientRead(1)
    \/ ClientClose(1)
    \/ \E m \in ErrMsgs(msgCount + 1) : BridgeDeliver(1, m)
    \/ BridgeLock(1)
    \/ BridgeSend(1)
    \/ BridgeCheck(1)
    \/ BridgeUpdate(1)

SpecBridgeErr == InitIdle /\ [][NextBridgeErr]_vars

\* What a client sends in the admin environment: GetChannelRequest with two
\* packet ids, another admin message, an admin payload that does not parse,
\* an encrypted packet on the admin port and a text packet.
AdminMenu ==
    {ToRadio("Packet", 0, AdminPkt(k, "GetChannelRequest")) : k \in {77, 79}}
      \cup {ToRadio("Packet", 0, AdminPkt(77, b)) : b \in {"OtherAdmin", "bad"}}
      \cup {ToRadio("Packet", 0,
                    [AdminPkt(77, "GetChannelRequest") EXCEPT
                        !.variant = "encrypted"]),
            ToRadio("Packet", 0, TextPkt(78))}

\* A text message of a peer on the primary channel.
TextMsgs(q) ==
    {Envelope(TRUE, Primary, MeshPkt(q, Peer, "decoded", "", "TEXT", "ok"))}

\* One client that sends packets to the radio while text arrives on MQTT.
NextAdmin ==
    \/ RunStart
    \/ RunWait
    \/ Cancel
    \/ Conn(1)
    \/ ReaderLoop(1)
    \/ \E m \in AdminMenu : ReaderRead(1, m)
    \/ ReaderReadErr(1)
    \/ ReaderAdminID(1)
    \/ ReaderWriteErr(1)
    \/ WriterSubscribe(1)
    \/ WriterCtxDone(1)
    \/ WriterWriteErr(1)
    \/ WriterUnsub(1)
    \/ SessionWait(1)
    \/ ClientRead(1)
    \/ ClientClose(1)
    \/ \E m \in TextMsgs(msgCount + 1) : BridgeDeliver(1, m)
    \/ BridgeLock(1)
    \/ BridgeSend(1)
    \/ BridgeCheck(1)

SpecAdmin == InitIdle /\ [][NextAdmin]_vars


(* NewRadio on its own: a caller passes any Config of Configs. *)
InitNewRadio ==
    /\ InitRadio /\ cfg = IdleCfg
    /\ ncfg \in Configs
    /\ nres = NotCalled
    /\ IdleTryDecode /\ IdleStream /\ ShortClients /\ IdleClient

NextNewRadio == NewRadioCall

SpecNewRadio == InitNewRadio /\ [][NextNewRadio]_vars


(* radio.TryDecode on its own: a caller passes any packet and key. *)
InitTryDecode ==
    /\ InitRadio /\ cfg = IdleCfg
    /\ IdleNewRadio /\ IdleStream /\ ShortClients /\ IdleClient
    /\ tpkt \in Packets
    /\ tkey \in Keys
    /\ tres = NoResult

NextTryDecode == TryDecodeCall

SpecTryDecode == InitTryDecode /\ [][NextTryDecode]_vars


(* The frame codec on its own: one end writes a message to a stream that
   already carries noise, the other end reads. *)
InitStream ==
    /\ InitRadio /\ cfg = IdleCfg
    /\ IdleNewRadio /\ IdleTryDecode /\ ShortClients /\ IdleClient
    /\ fmsg \in FrameMsgs
    /\ fnoise \in Noises
    /\ wire = fnoise
    /\ fres = NoRead

NextStream == StreamWrite \/ StreamRead

SpecStream == InitStream /\ [][NextStream]_vars


\* What a client sends in the steady-state environment.
SteadyInputs ==
    {ToRadio("WantConfigId", i, NoPkt) : i \in ReqIds}
      \cup {ToRadio("Packet", 0, AdminPkt(77, "GetChannelRequest")),
            ToRadio("Unknown", 0, NoPkt)}

\* One client that sends several frames, valid ones and ones that do not
\* deserialize, while text arrives on MQTT.
InitSteady ==
    /\ InitRadio /\ cfg = IdleCfg
    /\ IdleNewRadio /\ IdleTryDecode /\ IdleStream /\ IdleClient
    /\ maxReads = MaxReads + 2

NextSteady ==
    \/ RunStart
    \/ Conn(1)
    \/ ReaderLoop(1)
    \/ \E m \in SteadyInputs : ReaderRead(1, m)
    \/ ReaderReadDecodeErr(1)
    \/ ReaderReadErr(1)
    \/ ReaderAdminID(1)
    \/ ReaderSnap(1)
    \/ ReaderWriteErr(1)
    \/ WriterSubscribe(1)
    \/ WriterCtxDone(1)
    \/ WriterWriteErr(1)
    \/ WriterUnsub(1)
    \/ SessionWait(1)
    \/ ClientRead(1)
    \/ ClientClose(1)
    \/ \E m \in TextMsgs(msgCount + 1) : BridgeDeliver(1, m)
    \/ BridgeLock(1)
    \/ BridgeSend(1)
    \/ BridgeCheck(1)

SpecSteady == InitSteady /\ [][NextSteady]_vars

(* A Client on its own: Connect is called once, the radio sends any messages
   and the context may end at any time. *)
NextClient ==
    \/ \E r \in ReqIds, ok \in BOOLEAN : ConnectCall(r, ok)
    \/ CtxEnd
    \/ ConnectTimeout
    \/ ConnectComplete
    \/ LoopReadErr
    \/ \E m \in ClientMsgs : LoopRead(m)
    \/ LoopClose
    \/ LoopSetComplete

SpecClient == InitIdle /\ [][NextClient]_vars

(* ------------------------------ properties ---------------------------- *)
\* The handshake messages the client has read from session s, in order (the
\* FromRadio.Packet frames of the fan-out left out).
HandshakeSeen(s) == SelectSeq(out[s], LAMBDA m : m.t # "Packet")

\* The handshake section 4.6 of the specification prescribes for request req
\* and NodeDB snapshot snap.
ExpectedHandshake(req, snap) ==
    << [t |-> "MyInfo", num |-> Self, id |-> 30200, role |-> "",
        info |-> NoInfo, pkt |-> NoPkt],
       [t |-> "Metadata", num |-> 0, id |-> 0, role |-> "", info |-> NoInfo,
        pkt |-> NoPkt],
       [t |-> "NodeInfo", num |-> Self, id |-> 0, role |-> "self",
        info |-> [num |-> Self, user |-> Self, pos |-> 0, dm |-> 0, lh |-> 0],
        pkt |-> NoPkt] >>
    \o [i \in 1..Len(snap) |->
          [t |-> "NodeInfo", num |-> snap[i].num, id |-> 0, role |-> "db",
           info |-> snap[i], pkt |-> NoPkt]]
    \o << [t |-> "Channel", num |-> 0, id |-> 0, role |-> "PRIMARY",
           info |-> NoInfo, pkt |-> NoPkt],
          [t |-> "Config", num |-> 0, id |-> 0, role |-> "Device",
           info |-> NoInfo, pkt |-> NoPkt],
          [t |-> "ConfigCompleteId", num |-> 0, id |-> req, role |-> "",
           info |-> NoInfo, pkt |-> NoPkt] >>

\* The prescribed handshakes of the first n requests session s read, one after
\* the other; a handshake that has not taken its snapshot yet counts with an
\* empty one.
RECURSIVE ExpectedUpTo(_, _)
ExpectedUpTo(s, n) ==
    IF n = 0 THEN <<>>
    ELSE ExpectedUpTo(s, n - 1)
           \o ExpectedHandshake(asked[s][n],
                                IF n <= Len(snaps[s]) THEN snaps[s][n] ELSE <<>>)

IsPrefix(a, b) == Len(a) <= Len(b) /\ SubSeq(b, 1, Len(a)) = a

\* C1: for every WantConfigId(req_id) a session read, the client observes
\* MyInfo (node id, min_app_version 30200), Metadata, NodeInfo for self, one
\* NodeInfo per entry of the NodeDB snapshot, Channel(0, PRIMARY),
\* Config.Device and last ConfigCompleteId(req_id), in this relative order,
\* whatever fan-out packets are interleaved; once the reader is back in its
\* loop the handshake has been observed completely.
C1_HandshakeOrder ==
    \A s \in Sessions :
        /\ IsPrefix(HandshakeSeen(s), ExpectedUpTo(s, Len(asked[s])))
        /\ rpc[s] \in {"loop", "read", "bye"} =>
              HandshakeSeen(s) = ExpectedUpTo(s, Len(asked[s]))

\* C1 witness: a client has read a complete handshake that carries a NodeDB
\* entry and has a fan-out packet between its MyInfo and its ConfigCompleteId.
C1_Witness ==
    \E s \in Sessions :
        \E i, j, k, l \in 1..Len(out[s]) :
            /\ i < j /\ j < l /\ i < k /\ k < l
            /\ out[s][i].t = "MyInfo"
            /\ out[s][j].t = "Packet"
            /\ out[s][k].t = "NodeInfo" /\ out[s][k].role = "db"
            /\ out[s][l].t = "ConfigCompleteId" /\ out[s][l].id \in ReqIds

\* Copies of delivery q's mesh packet handed to session s: frames its client
\* read plus the one its writer is writing.
Copies(s, q) ==
    Count(out[s], LAMBDA m : m.t = "Packet" /\ m.pkt.id = q)
      + (IF wpc[s] = "write" /\ wmsg[s].pkt.id = q THEN 1 ELSE 0)

\* The dispatch of delivery q has returned.
Dispatched(q) ==
    /\ q \in DOMAIN fan
    /\ \A t \in Bridges : ~(bseq[t] = q /\ bpc[t] \in {"lock", "send"})

\* C2: once the dispatch of an envelope has returned, every session that was
\* registered when it started got exactly one FromRadio.Packet with the
\* envelope's packet id (its writer holds it or its client has read it, unless
\* the write failed); no session ever holds two copies, and a session that
\* was not registered holds none.
C2_ExactlyOneCopy ==
    \A q \in 1..msgCount : \A s \in Sessions :
        /\ Copies(s, q) <= 1
        /\ (Dispatched(q) /\ s \in fan[q] /\ ~werr[s]) => Copies(s, q) = 1
        /\ (q \in DOMAIN fan /\ s \notin fan[q]) => Copies(s, q) = 0
        /\ q \notin DOMAIN fan => Copies(s, q) = 0

\* C2 witness: one envelope was dispatched to two registered sessions and the
\* client of each has read its packet.
C2_Witness ==
    \E q \in DOMAIN fan :
        /\ fan[q] = Sessions
        /\ \A s \in Sessions :
              Count(out[s], LAMBDA m : m.t = "Packet" /\ m.pkt.id = q) = 1

\* C3: the MQTT callback is never blocked by a client that does not drain its
\* stream: it is never inside the dispatch, holding r.mu, waiting to hand a
\* message to a writer that is itself blocked in Write.
C3_BridgeNeverBlocked ==
    \A t \in Bridges :
        ~(bpc[t] = "send" /\ mu = t /\ wpc[cur[t]] = "write" /\ ~cliClosed[cur[t]])

\* C4: the values nextPacketID returns are > 0 and strictly increasing in the
\* order they are issued.
C4_PacketIDsIncrease ==
    /\ \A i \in 1..Len(issued) : issued[i] > 0
    /\ \A i, j \in 1..Len(issued) : i < j => issued[i] < issued[j]

\* C5: after the reader returned on Disconnect the session ends by itself: the
\* writer is never left waiting in its select on a context nothing cancelled.
C5_DisconnectEndsSession ==
    \A s \in Sessions :
        (rpc[s] = "bye" /\ spc[s] = "run") =>
            ~(wpc[s] = "select" /\ ~SessDone(s) /\ wq[s] = <<>>
              /\ \A t \in Bridges : bpc[t] = "idle")

\* C6: after the context passed to Run is cancelled Run returns: it is never
\* left in eg.Wait with the beacon tasks gone and the listener still in Accept.
C6_RunReturnsAfterCancel ==
    (ctxDone /\ runpc = "running") =>
        ~(lpc = "accept" /\ \A k \in Beacons : bcpc[k] \in {"off", "done"})

\* C7: after cancellation every session is torn down without client input: no
\* session is left open whose writer has returned and whose reader is blocked
\* in Read on a stream the client keeps open.
C7_SessionsTornDown ==
    \A s \in Sessions :
        (ctxDone /\ spc[s] = "run") =>
            ~(rpc[s] = "read" /\ wpc[s] = "done" /\ ~cliClosed[s])

\* C8: the fan-out and an exiting writer never wait on each other: the
\* callback never holds r.mu waiting to send to a writer that has left its
\* loop and waits for r.mu to unsubscribe.
C8_NoDispatchUnsubDeadlock ==
    \A t \in Bridges :
        ~(bpc[t] = "send" /\ mu = t /\ wpc[cur[t]] = "unsub")

\* C9: only the writer task writes to the stream: the reader task is never
\* inside a Write, so never inside one together with the writer.
C9_OnlyWriterWrites ==
    \A s \in Sessions :
        /\ rpc[s] # "write"
        /\ ~(rpc[s] = "write" /\ wpc[s] = "write")

\* C10: once the callback has passed the dispatch of an envelope that
\* unmarshalled (it is at the channel check, at the NodeDB update, or has
\* returned), the envelope was fanned out to every session registered then,
\* whatever its channel id and whether or not TryDecode succeeds.
C10_FanoutBeforeChecks ==
    \A t \in Bridges :
        (bseq[t] # 0 /\ bmsg[t].ok /\ bpc[t] \in {"check", "update", "idle"}) =>
            /\ bseq[t] \in DOMAIN fan
            /\ \A s \in fan[bseq[t]] : werr[s] \/ Copies(s, bseq[t]) = 1

\* C10 witness: a client has read the packet of an envelope that TryDecode
\* rejects and the packet of an envelope of another channel, and the callback
\* has returned from the latter.
C10_Witness ==
    \E t \in Bridges : \E s \in Sessions : \E i, j \in 1..Len(out[s]) :
        /\ bpc[t] = "idle" /\ bmsg[t].ok /\ bmsg[t].chan # Primary
        /\ out[s][j].t = "Packet" /\ out[s][j].pkt.id = bseq[t]
        /\ out[s][i].t = "Packet"
        /\ TryDecode(out[s][i].pkt, PrimaryPSK) # "ok"

\* The updates of node n among the first k that ran.
UpdatesOf(n, k) == {i \in 1..k : applied[i].n = n}

\* The largest element of a non-empty set of numbers.
Latest(S) == CHOOSE i \in S : \A j \in S : j <= i

\* The value the updates among the first k gave field f of node n.
FieldAfter(n, f, k) ==
    LET S == {i \in UpdatesOf(n, k) : applied[i].field = f}
    IN  IF S = {} THEN 0 ELSE applied[Latest(S)].v

\* The entry of node n after the first k updates (one of them is of n).
EntryAfter(n, k) ==
    [num |-> n, user |-> FieldAfter(n, "user", k),
     pos |-> FieldAfter(n, "pos", k), dm |-> FieldAfter(n, "dm", k),
     lh |-> applied[Latest(UpdatesOf(n, k))].at]

\* C11: every updated node has an entry with its num; when the last updates
\* of a node are a set-user and then a set-position, every snapshot has
\* exactly one entry for the node, with that user, that position and
\* last_heard no earlier than the time of the second update.
C11_UserThenPosition ==
    /\ \A i \in DOMAIN applied :
          applied[i].n \in DOMAIN nodeDB /\ nodeDB[applied[i].n].num = applied[i].n
    /\ \A i, j \in DOMAIN applied :
          (/\ i < j
           /\ applied[i].n = applied[j].n
           /\ applied[i].field = "user" /\ applied[j].field = "pos"
           /\ j = Latest(UpdatesOf(applied[j].n, Len(applied)))
           /\ \A k \in UpdatesOf(applied[i].n, Len(applied)) :
                 applied[k].field = "user" => k <= i)
          => \A sq \in getNodeDB(nodeDB) :
                LET E == {x \in 1..Len(sq) : sq[x].val.num = applied[i].n} IN
                /\ Cardinality(E) = 1
                /\ \A x \in E : /\ sq[x].val.user = applied[i].v
                                /\ sq[x].val.pos = applied[j].v
                                /\ sq[x].val.lh >= applied[j].at

\* C11 witness: a set-user of a node was followed, after the clock advanced,
\* by a set-position of the same node.
C11_Witness ==
    \E i, j \in DOMAIN applied :
        /\ i < j /\ applied[i].n = applied[j].n
        /\ applied[i].field = "user" /\ applied[j].field = "pos"
        /\ applied[j].at > applied[i].at
        /\ nodeDB[applied[j].n].pos = applied[j].v

\* C12: the store always holds, for every node, the entry that results from
\* all the updates that ran, each field with the value of its last update (no
\* update is lost), and every entry of a snapshot is the entry as it was
\* after some number of whole updates.
C12_AtomicUpdates ==
    /\ DOMAIN nodeDB = {applied[i].n : i \in DOMAIN applied}
    /\ \A n \in DOMAIN nodeDB : nodeDB[n] = EntryAfter(n, Len(applied))
    /\ \A i \in DOMAIN held :
          heldExp[i].user # Scribble =>
              \E k \in DOMAIN applied :
                  /\ applied[k].n = held[i].val.num
                  /\ held[i].val = EntryAfter(held[i].val.num, k)

\* C12 witness: two callbacks overlap on one node: the one delivered later has
\* set the user while the other is still about to set the position, and a
\* snapshot was taken meanwhile.
C12_Witness ==
    \E t, u \in Bridges :
        /\ bpc[t] = "update" /\ bmsg[t].pkt.port = "POSITION"
        /\ bpc[u] = "idle" /\ bmsg[u].pkt.port = "NODEINFO"
        /\ bmsg[u].pkt.from = bmsg[t].pkt.from
        /\ bseq[u] > bseq[t]
        /\ bmsg[t].pkt.from \in DOMAIN nodeDB
        /\ nodeDB[bmsg[t].pkt.from].user = bseq[u]
        /\ held # <<>>

\* C13: a snapshot has exactly one entry per node stored when it was taken;
\* its entries keep the values they had then, changed only by what its holder
\* wrote to them, whatever updates the store gets afterwards; and nothing the
\* holder writes ever shows in the store.
C13_SnapshotCopies ==
    /\ \A i \in DOMAIN held : Deref(nodeDB, held[i]) = heldExp[i]
    /\ held # <<>> =>
          /\ Len(held) = Cardinality(heldKeys)
          /\ {heldExp[i].num : i \in DOMAIN heldExp} = heldKeys
    /\ \A n \in DOMAIN nodeDB : nodeDB[n].user # Scribble

\* C13 witness: the holder of a snapshot wrote to an entry and the store
\* updated the same node after the snapshot was taken.
C13_Witness ==
    \E i \in DOMAIN held :
        /\ heldExp[i].user = Scribble
        /\ nodeDB[heldExp[i].num].pos # heldExp[i].pos

\* The packet of envelope m decodes under the primary PSK: it is cleartext, or
\* it was encrypted under that PSK with its own id and from.
Decodes(m) ==
    \/ m.pkt.variant = "decoded"
    \/ m.pkt.variant = "encrypted" /\ m.pkt.key = "primary"

\* The NodeDB field section 4.3 of the specification lets envelope m set.
FieldOfPort(m) ==
    CASE m.pkt.port = "NODEINFO" -> "user"
      [] m.pkt.port = "POSITION" -> "pos"
      [] m.pkt.port = "TELEMETRY" /\ m.pkt.body = "ok" -> "dm"
      [] OTHER -> "none"

\* The callback t takes a step past the dispatch.
StepsPastDispatch(t) == bpc[t] \in {"check", "update"} /\ bpc'[t] # bpc[t]

\* C14: a callback that handles an envelope of the primary channel whose
\* packet decodes and whose payload parses goes on to update the NodeDB
\* exactly for NodeInfo, Position and Telemetry with device metrics; the
\* update sets that one field (and last_heard) of the entry of packet.from and
\* changes no other entry; for every other portnum the callback returns with
\* the NodeDB unchanged.
C14_PortnumEffects ==
    [][\A t \in Bridges :
          (/\ StepsPastDispatch(t)
           /\ bmsg[t].ok /\ bmsg[t].chan = "LongFast" /\ Decodes(bmsg[t])
           /\ bmsg[t].pkt.body \in {"ok", "nometrics"})
          => LET f == FieldOfPort(bmsg[t])
                 n == bmsg[t].pkt.from
             IN  IF bpc[t] = "check"
                 THEN /\ nodeDB' = nodeDB
                      /\ bpc'[t] = IF f = "none" THEN "idle" ELSE "update"
                 ELSE /\ bpc'[t] = "idle"
                      /\ DOMAIN nodeDB' = DOMAIN nodeDB \cup {n}
                      /\ nodeDB'[n].num = n
                      /\ nodeDB'[n][f] = bmsg[t].pkt.id
                      /\ \A g \in {"user", "pos", "dm"} \ {f} :
                            nodeDB'[n][g] = IF n \in DOMAIN nodeDB
                                            THEN nodeDB[n][g] ELSE 0
                      /\ \A o \in DOMAIN nodeDB \ {n} : nodeDB'[o] = nodeDB[o]
      ]_vars

\* C14 witness: a callback has returned from a Position encrypted under the
\* primary PSK with the position stored for its sender, and another one from
\* a Telemetry without device metrics with no metrics stored.
C14_Witness ==
    \E t, u \in Bridges :
        /\ bpc[t] = "idle" /\ bmsg[t].pkt.variant = "encrypted"
        /\ bmsg[t].pkt.port = "POSITION"
        /\ bmsg[t].pkt.from \in DOMAIN nodeDB
        /\ nodeDB[bmsg[t].pkt.from].pos = bmsg[t].pkt.id
        /\ bpc[u] = "idle" /\ bmsg[u].chan = Primary
        /\ bmsg[u].pkt.port = "TELEMETRY" /\ bmsg[u].pkt.body = "nometrics"
        /\ nodeDB[bmsg[t].pkt.from].dm = 0

\* C15: no step of a callback that handles an envelope of another channel
\* than the primary one changes the NodeDB, and after the fan-out the
\* callback returns.
C15_OtherChannelNoUpdate ==
    [][\A t \in Bridges :
          (bmsg[t].ok /\ bmsg[t].chan # "LongFast" /\ bpc'[t] # bpc[t]
           /\ bpc[t] # "idle")
          => /\ nodeDB' = nodeDB
             /\ bpc'[t] # "update"
             /\ bpc[t] = "check" => bpc'[t] = "idle"
      ]_vars

\* C15 witness: a callback has returned from a NodeInfo of another channel
\* and its sender has no entry.
C15_Witness ==
    \E t \in Bridges :
        /\ bpc[t] = "idle" /\ bseq[t] # 0 /\ bmsg[t].ok
        /\ bmsg[t].chan = Secondary /\ bmsg[t].pkt.port = "NODEINFO"
        /\ bmsg[t].pkt.variant = "decoded" /\ bmsg[t].pkt.body = "ok"
        /\ bmsg[t].pkt.from \notin DOMAIN nodeDB

\* Envelope m is malformed or undecodable: it does not unmarshal, its packet
\* does not decrypt or is of an unknown payload type, or its inner payload
\* does not parse.
Malformed(m) ==
    \/ ~m.ok
    \/ m.pkt.variant \notin {"decoded", "encrypted"}
    \/ m.pkt.variant = "encrypted" /\ m.pkt.key # "primary"
    \/ m.pkt.body = "garbage"

\* C16: handling a malformed or undecodable message changes neither the
\* NodeDB nor the state of Run or of any session: the callback never reaches
\* the update and returns, ready for the next message.
C16_MalformedDropped ==
    [][\A t \in Bridges :
          /\ (bseq'[t] # bseq[t] /\ ~bmsg'[t].ok) =>
                bpc'[t] = "idle" /\ nodeDB' = nodeDB
          /\ (Malformed(bmsg[t]) /\ bpc'[t] # bpc[t] /\ bpc[t] # "idle") =>
                /\ nodeDB' = nodeDB
                /\ bpc'[t] # "update"
                /\ bpc[t] = "check" => bpc'[t] = "idle"
                /\ <<runpc, runErr, ctxDone, spc, sCancel, sErr, rpc>>' =
                      <<runpc, runErr, ctxDone, spc, sCancel, sErr, rpc>>
      ]_vars

\* C16 witness: with a session running, a valid NodeInfo delivered after a
\* message that was dropped has been stored.
C16_Witness ==
    \E t \in Bridges :
        /\ bpc[t] = "idle" /\ bseq[t] > 1 /\ ~Malformed(bmsg[t])
        /\ bmsg[t].pkt.from \in DOMAIN nodeDB
        /\ nodeDB[bmsg[t].pkt.from].user = bseq[t]
        /\ \A q \in 1..(bseq[t] - 1) : q \notin {applied[i].v : i \in DOMAIN applied}
        /\ spc[1] = "run" /\ runpc = "running"

\* The packet ids of the GetChannelRequest admin packets session s read, in
\* order.
ChannelRequests(s) ==
    LET rq == SelectSeq(got[s],
                        LAMBDA m : /\ m.t = "Packet"
                                   /\ m.pkt.variant = "decoded"
                                   /\ m.pkt.port = "ADMIN"
                                   /\ m.pkt.body = "GetChannelRequest")
    IN  [i \in 1..Len(rq) |-> rq[i].pkt.id]

\* The frames on the admin port the client of session s has read, in order.
AdminFrames(s) == SelectSeq(out[s], LAMBDA m : m.pkt.port = "ADMIN")

\* C17: the client reads at most one admin frame per GetChannelRequest the
\* session read and none for anything else; the i-th one is a
\* FromRadio.Packet from the radio to itself with decoded data on the admin
\* port, request_id = the id of the i-th request and payload
\* GetChannelResponse{index 0, role DISABLED}; once the reader is back in its
\* loop every request has its reply.
C17_AdminReply ==
    \A s \in Sessions :
        LET reqs == ChannelRequests(s)
            reps == AdminFrames(s)
        IN  /\ Len(reps) <= Len(reqs)
            /\ \A i \in 1..Len(reps) :
                  /\ reps[i].t = "Packet"
                  /\ reps[i].pkt.variant = "decoded"
                  /\ reps[i].pkt.req = reqs[i]
                  /\ reps[i].pkt.body = "GetChannelResponse:0:DISABLED"
                  /\ reps[i].pkt.from = Self /\ reps[i].pkt.to = Self
            /\ rpc[s] \in {"loop", "read"} => Len(reps) = Len(reqs)

\* C17 witness: a client that sent GetChannelRequest with packet id 79 has
\* read a fan-out packet and then the reply.
C17_Witness ==
    \E s \in Sessions : \E i, j \in 1..Len(out[s]) :
        /\ i < j
        /\ out[s][i].pkt.port = "TEXT"
        /\ out[s][j].pkt.port = "ADMIN" /\ out[s][j].pkt.req = 79
        /\ rpc[s] = "read"

\* The calls of mqtt.Publish made for beacon kind k so far.
Attempts(k) ==
    Cardinality({i \in DOMAIN published :
                    published[i].pkt.port =
                        (IF k = "NodeInfo" THEN "NODEINFO" ELSE "POSITION")})

\* The interval of beacon kind k is > 0.
HasInterval(k) == IF k = "NodeInfo" THEN cfg.ni ELSE cfg.pos

\* C18: a beacon kind with interval zero is never published and has no task;
\* a kind with an interval > 0 has made its first publish attempt before its
\* first tick and exactly one more after each tick: at its wait it has made
\* one attempt more than it saw ticks, and while it sends it is making that
\* attempt.
C18_BeaconSchedule ==
    \A k \in Beacons :
        /\ ~HasInterval(k) => Attempts(k) = 0 /\ bcpc[k] = "off"
        /\ runpc \in {"new", "failed"} => Attempts(k) = 0
        /\ (HasInterval(k) /\ runpc \in {"running", "returned"}) =>
              /\ bcpc[k] \in {"bcast", "store", "publish", "wait", "done"}
              /\ bcpc[k] \in {"bcast", "store", "publish"} =>
                    Attempts(k) = ticks[k]
              /\ bcpc[k] \in {"wait", "done"} => Attempts(k) = ticks[k] + 1

\* C18 witness: with a NodeInfo interval and no Position interval, the
\* NodeInfo task has published at start and after a tick and then returned
\* on cancellation; no Position was published.
C18_Witness ==
    /\ cfg.ni /\ ~cfg.pos
    /\ bcpc["NodeInfo"] = "done" /\ ticks["NodeInfo"] = 1
    /\ Attempts("NodeInfo") = 2 /\ Attempts("Position") = 0
    /\ ctxDone

\* C19: the step in which a beacon's publish fails takes that beacon task to
\* its wait and changes nothing of Run, of the other beacon task, of the
\* listener or of a session.
C19_PublishFailureContained ==
    [][\A k \in Beacons :
          (/\ bcpc[k] = "publish" /\ bcpc'[k] # "publish"
           /\ Len(published') = Len(published) + 1
           /\ ~published'[Len(published')].ok)
          => /\ bcpc'[k] = "wait"
             /\ \A o \in Beacons \ {k} : bcpc'[o] = bcpc[o]
             /\ <<runpc, runErr, ctxDone, lpc, spc, sCancel, sErr, rpc, wpc>>' =
                   <<runpc, runErr, ctxDone, lpc, spc, sCancel, sErr, rpc, wpc>>
      ]_vars

\* C19 witness: a beacon whose publish failed has made a later attempt, while
\* Run and a session are running.
C19_Witness ==
    \E i, j \in DOMAIN published :
        /\ i < j
        /\ ~published[i].ok
        /\ published[j].pkt.port = published[i].pkt.port
        /\ runpc = "running" /\ ~runErr /\ spc[1] = "run"

\* C20: every beacon packet passed to mqtt.Publish has from = self, to =
\* broadcast and an id > 0, and the ids of successive beacons increase.
C20_BeaconIdsFresh ==
    /\ \A i \in DOMAIN published :
          /\ published[i].pkt.from = Self
          /\ published[i].pkt.to = Broadcast
          /\ published[i].pkt.id > 0
    /\ \A i, j \in DOMAIN published :
          i < j => published[i].pkt.id < published[j].pkt.id

\* The Config that NewRadio was given is refused by Config.validate's rules.
Refused(c) ==
    \/ ~c.MQTTClient
    \/ c.NodeID = 0
    \/ ~c.Channels.set
    \/ c.Channels.Settings = <<>>

\* C21: NewRadio returns an error and no radio for a Config without MQTT
\* client, with node id zero or with a nil or empty channel list; when it
\* succeeds the radio's channel list has at least one element, element 0 being
\* the first channel given, and an empty long or short name has been replaced
\* by the default derived from the node id (a given name is kept).
C21_NewRadioValidates ==
    nres # NotCalled =>
        /\ Refused(ncfg) => nres.err # "" /\ ~nres.radio.ptr
        /\ nres.err = "" =>
              /\ nres.radio.ptr
              /\ Len(nres.radio.cfg.Channels.Settings) >= 1
              /\ nres.radio.cfg.Channels.Settings[1] = ncfg.Channels.Settings[1]
              /\ nres.radio.cfg.LongName =
                    (IF ncfg.LongName = EmptyName
                     THEN Name("Meshtastic ", 1) ELSE ncfg.LongName)
              /\ nres.radio.cfg.ShortName =
                    (IF ncfg.ShortName = EmptyName
                     THEN Name("", 1) ELSE ncfg.ShortName)
              /\ nres.radio.cfg.NodeID = ncfg.NodeID

\* C21 witness: NewRadio succeeded for a Config with two channels, an empty
\* long name and a node id wider than four hex digits.
C21_Witness ==
    /\ nres.err = "" /\ nres.radio.ptr
    /\ ncfg.LongName = EmptyName /\ ncfg.ShortName # EmptyName
    /\ ncfg.NodeID = WideID
    /\ Len(ncfg.Channels.Settings) = 2

\* C22: TryDecode returns the Data of a Decoded packet as it is, whatever the
\* key; for an Encrypted packet it returns the Data that was marshalled and
\* encrypted under (key, packet.id, packet.from), ErrDecrypt when the key is
\* not a valid key or the plaintext does not parse as Data, and no other
\* error; for a packet with neither variant it returns ErrUnkownPayloadType;
\* and no step changes the packet.
C22_TryDecode ==
    /\ [](tres # NoResult =>
            /\ tpkt.variant = "decoded" =>
                  tres.err = "" /\ tres.data = tpkt.decoded
            /\ tpkt.variant = "encrypted" =>
                  /\ tres.err \in {"", "ErrDecrypt"}
                  /\ tkey.len \notin {16, 24, 32} => tres.err = "ErrDecrypt"
                  /\ tkey.len \in {16, 24, 32} =>
                        /\ \A d \in Datas :
                              tpkt.encrypted =
                                 XOR(MarshalData(d), tkey, tpkt.id, tpkt.from).bytes
                              => tres.err = "" /\ tres.data = d
                        /\ (\A d \in Datas :
                              tpkt.encrypted #
                                 XOR(MarshalData(d), tkey, tpkt.id, tpkt.from).bytes)
                              => tres.err = "ErrDecrypt"
            /\ tpkt.variant = "none" => tres.err = "ErrUnkownPayloadType")
    /\ [][tpkt' = tpkt]_vars

\* C22 witness: TryDecode returned the Data, with a payload, of an Encrypted
\* packet whose id and from differ.
C22_Witness ==
    /\ tpkt.variant = "encrypted" /\ tpkt.id # tpkt.from
    /\ tres.err = "" /\ tres.data.payload # <<>>
    /\ tpkt.encrypted # MarshalData(tres.data)

\* C23: a message whose serialized payload is at most 512 bytes, written to an
\* empty stream by one end and read by the other, is read without error and
\* equal to the message written, for ToRadio (client to radio) and FromRadio
\* (radio to client) alike.
C23_FrameRoundTrip ==
    (fres # NoRead /\ fnoise = <<>>) => fres.err = "" /\ fres.msg = fmsg

\* C23 witness: a FromRadio message of exactly 512 payload bytes, some of them
\* START2, has been read back as written.
C23_Witness ==
    /\ fnoise = <<>> /\ fres.err = "" /\ fres.msg = fmsg
    /\ fmsg.type = "FromRadio"
    /\ Len(MarshalMsg(fmsg)) = 512
    /\ fmsg.body[1] = Start2

\* The four header bytes Write put on the stream.
HeaderWritten == SubSeq(wire, Len(fnoise) + 1, Len(fnoise) + 4)

\* C24: the header written for a payload of n <= 512 bytes is 0x94, 0xC3 and
\* two bytes of which the first times 256 plus the second is n; for n = 257
\* it is 0x94 0xC3 0x01 0x01.
C24_HeaderBytes ==
    wire # fnoise =>
        LET h == HeaderWritten
            n == Len(MarshalMsg(fmsg))
        IN /\ h[1] = 148 /\ h[2] = 195
           /\ h[3] \in 0..255 /\ h[4] \in 0..255
           /\ h[3] * 256 + h[4] = n
           /\ n = 257 => h = <<148, 195, 1, 1>>
           /\ SubSeq(wire, Len(fnoise) + 5, Len(wire)) = MarshalMsg(fmsg)

\* C24 witness: the header of a payload of 257 bytes has been written.
C24_Witness ==
    /\ wire # fnoise
    /\ Len(MarshalMsg(fmsg)) = 257
    /\ HeaderWritten = <<148, 195, 1, 1>>

\* Position i of the noise starts a START1 START2 pair.
PairAt(i) ==
    /\ i + 1 <= Len(fnoise)
    /\ fnoise[i] = Start1 /\ fnoise[i + 1] = Start2

\* The pair at i is followed, within the noise, by two bytes that give a
\* length above 512.
LongLengthAt(i) ==
    /\ i + 3 <= Len(fnoise)
    /\ fnoise[i + 2] * 256 + fnoise[i + 3] > MaxFramePayload

\* C25 as stated: if no START1 START2 pair of the noise is followed on the
\* stream by a length <= 512, reading noise followed by encode(p) yields p.
C25_ResyncAnyNoise ==
    (/\ fres # NoRead
     /\ \A i \in 1..Len(fnoise) :
           PairAt(i) => wire[i + 2] * 256 + wire[i + 3] > MaxFramePayload)
        => fres.err = "" /\ fres.msg = fmsg

\* C25 amended: if every START1 START2 pair of the noise is followed, within
\* the noise, by two bytes that give a length above 512, reading noise
\* followed by encode(p) yields p.  This covers noise that ends in START1 (the
\* byte after it, the frame's own START1, is reconsidered) and noise that
\* holds a header with a length above 512 (it is discarded and the scan
\* resumes after it).
C25_Resync ==
    (fres # NoRead /\ \A i \in 1..Len(fnoise) : PairAt(i) => LongLengthAt(i))
        => fres.err = "" /\ fres.msg = fmsg

\* C25 witness: the message was read after noise that holds a header with a
\* length above 512 and ends in START1.
C25_Witness ==
    /\ fres.err = "" /\ fres.msg = fmsg /\ fmsg.tag # 0
    /\ Len(fnoise) = 5
    /\ PairAt(1) /\ LongLengthAt(1)
    /\ fnoise[5] = Start1

\* C26: a frame that does not deserialize as ToRadio does not end the session:
\* the reader that met it does not return and cancels nothing.
C26_DecodeErrorRecoverable ==
    \A s \in Sessions :
        (got[s] # <<>> /\ got[s][Len(got[s])] = MalformedFrame /\ ~cliClosed[s])
            => rpc[s] # "done" /\ ~sCancel[s] /\ sErr[s] = ""

\* The ConfigCompleteId messages the client of session s has read, and the
\* config messages (everything but FromRadio.Packet) among its frames.
Completes(s) == SelectSeq(out[s], LAMBDA m : m.t = "ConfigCompleteId")
ConfigFrames(s) ==
    Count(out[s], LAMBDA m :
        m.t \in {"MyInfo", "Metadata", "NodeInfo", "Channel", "Config",
                 "ConfigCompleteId"})

\* C27: a session writes config messages only in answer to a WantConfigId: the
\* client never holds more ConfigCompleteId than the session read
\* WantConfigId, nor more config messages than the handshakes of those
\* requests contain, the ConfigCompleteId ids are the requested ids in order,
\* and whenever the reader is back in its loop every WantConfigId read so far,
\* the first and each further one, has had its complete handshake.
C27_SteadyState ==
    \A s \in Sessions :
        /\ Len(Completes(s)) <= Len(asked[s])
        /\ \A i \in 1..Len(Completes(s)) : Completes(s)[i].id = asked[s][i]
        /\ ConfigFrames(s) <= Len(ExpectedUpTo(s, Len(asked[s])))
        /\ Len(asked[s]) = 0 => \A i \in 1..Len(out[s]) : out[s][i].t = "Packet"
        /\ rpc[s] \in {"loop", "read", "adminid"} =>
              /\ Len(Completes(s)) = Len(asked[s])
              /\ ConfigFrames(s) = Len(ExpectedUpTo(s, Len(asked[s])))

\* C27 witness: a session has served two WantConfigId with an admin request in
\* between, its client has read both ConfigCompleteId, the admin reply and a
\* fan-out packet, and the reader is in steady state.
C27_Witness ==
    /\ Len(asked[1]) = 2 /\ Len(got[1]) = 3
    /\ got[1][2].t = "Packet"
    /\ Len(Completes(1)) = 2
    /\ rpc[1] = "read"
    /\ \E i \in 1..Len(out[1]) :
          out[1][i].t = "Packet" /\ out[1][i].pkt.port = "TEXT"
    /\ \E i \in 1..Len(out[1]) :
          out[1][i].t = "Packet" /\ out[1][i].pkt.port = "ADMIN"

\* C28: a session whose writer failed with a write error terminates with an
\* error and without further input: the failed writer is never left waiting
\* for r.mu that a fan-out holds while it waits to send to that writer, and
\* once handleConn has returned it has returned an error.
C28_WriteErrorEndsSession ==
    \A s \in Sessions :
        werr[s] =>
            /\ ~(wpc[s] = "unsub"
                 /\ \E t \in Bridges : bpc[t] = "send" /\ mu = t /\ cur[t] = s)
            /\ spc[s] = "closed" => sErr[s] # ""

\* C29: each sendPacket call advances r.packetID by exactly one: whenever no
\* sendPacket call is in progress and nextPacketID had no other caller, the
\* counter equals its initial value 0 plus the number of sendPacket calls made
\* (each call ends in one Publish).
C29_SendPacketAdvancesByOne ==
    (/\ \A k \in Beacons : bcpc[k] \notin {"store", "publish"}
     /\ Len(issued) = Len(published))
        => packetID = Len(published)

\* C30: a ToRadio.Packet a session has read from its client is published to
\* MQTT on the primary channel: once the reader has finished with the message
\* (it is back in its loop, or has read a later message) a Publish call on
\* the primary channel has carried a packet with that port and payload.
C30_ClientPacketPublished ==
    \A s \in Sessions : \A i \in 1..Len(got[s]) :
        (/\ got[s][i].t = "Packet"
         /\ (i < Len(got[s]) \/ rpc[s] \in {"loop", "read"}))
            => \E j \in DOMAIN published :
                  /\ published[j].chan = Primary
                  /\ published[j].pkt.port = got[s][i].pkt.port
                  /\ published[j].pkt.body = got[s][i].pkt.body

\* C31: every handshake carries exactly one NodeInfo with num = the radio's
\* own node id: the client of a session has read at most one such NodeInfo
\* per handshake begun (per MyInfo), and exactly one per handshake once the
\* reader is back in its loop.
C31_OneSelfNodeInfo ==
    \A s \in Sessions :
        LET selfInfos == Count(out[s], LAMBDA m : m.t = "NodeInfo" /\ m.num = Self)
            begun == Count(out[s], LAMBDA m : m.t = "MyInfo")
        IN  /\ selfInfos <= begun
            /\ (rpc[s] \in {"loop", "read", "bye"} /\ wq[s] = <<>>) =>
                  selfInfos = begun

\* The ConfigCompleteId messages the read loop has received.
CompleteIds ==
    SelectSeq(recv, LAMBDA e : e.msg.t = "ConfigCompleteId")

C33_CompletesOnOwnId ==
    (Complete(State) \/ cfgComplete = "closed" \/ connpc = "nil") =>
        \E i \in 1..Len(recv) :
            /\ recv[i].msg.t = "ConfigCompleteId"
            /\ recv[i].msg.id = State.configID

\* The messages of kind t received so far, in order.
Received(t) ==
    LET sq == SelectSeq(recv, LAMBDA e : e.msg.t = t)
    IN  [i \in 1..Len(sq) |-> sq[i].msg]

\* The variants of the messages received while the State was complete, other
\* than ConfigCompleteId and Rebooted (and failed reads), in order.
DueToHandlers ==
    LET sq == SelectSeq(recv, LAMBDA e : /\ e.complete
                                         /\ e.msg # ReadError
                                         /\ ~Continues(e.msg))
    IN  [i \in 1..Len(sq) |-> Variant(sq[i].msg)]

\* The last element of a sequence, as a sequence of at most one element.
LastOf(sq) == IF sq = <<>> THEN <<>> ELSE <<sq[Len(sq)]>>

\* C34: HandleMessage has been called for exactly the messages received while
\* the State was complete, other than ConfigCompleteId and Rebooted, in
\* order; every configuration message received, before or after completion,
\* is recorded in the State; and State.Complete() never goes back from true
\* to false, so the messages received before completion form a prefix.
C34_HandlersAfterComplete ==
    /\ [](/\ handled = DueToHandlers
          /\ State.nodes = Received("NodeInfo")
          /\ State.channels = Received("Channel")
          /\ State.configs = Received("Config")
          /\ State.modules = Received("ModuleConfig")
          /\ State.nodeInfo = LastOf(Received("MyInfo"))
          /\ State.deviceMetadata = LastOf(Received("Metadata"))
          /\ \A i, j \in 1..Len(recv) :
                (i < j /\ recv[i].complete) => recv[j].complete)
    /\ [][Complete(State) => Complete(State')]_vars

\* C34 witness: a NodeInfo received before completion is in the State and was
\* not handled; after the ConfigCompleteId a Packet was handled.
C34_Witness ==
    /\ Len(recv) = 3
    /\ recv[1].msg.t = "NodeInfo" /\ ~recv[1].complete
    /\ recv[2].msg.t = "ConfigCompleteId"
    /\ recv[3].msg.t = "Packet" /\ recv[3].complete
    /\ Len(State.nodes) = 1
    /\ handled = <<recv[3].msg>>
====
